---- MODULE Spec2Model ----
(***************************************************************************)
(* Acquisition pipeline of ReadMeABook: the job queue, the search          *)
(* processors (processSearchIndexers, processSearchEbook), the candidate   *)
(* scoring, filter and selection, the direct download with its fallback    *)
(* chain, the fetch-ebook endpoint that creates and retries sidecar        *)
(* requests, and the RMABLogger with its job events.                       *)
(***************************************************************************)
EXTENDS Integers, Sequences, FiniteSets, TLC

(***************************************************************************)
(* Bounds of the model.                                                    *)
(***************************************************************************)
NumWorkers == 2
MaxJobs == 1
MaxSidecarJobs == 2
MaxAttemptsBound == 2
NumTriggers == 2
MaxResults == 2
MaxCandidates == 3
MaxTitleWords == 4
MaxLogCalls == 2
MaxChildDepth == 1
MaxPathLen == 4
MaxSeeders == 1000
NumAdmins == 2
NumUsers == 2
MaxFiles == 2

Workers == 1..NumWorkers
Triggers == 1..NumTriggers

VARIABLES
  jobs,            \* Job table: sequence of job records, the id is the index
  requests,        \* Request table: sequence of request records
  downloadHistory, \* DownloadHistory table
  wpc,             \* worker -> position in the worker loop / processor
  wjob,            \* worker -> id of the job it holds (0: none)
  werr,            \* worker -> message of the error the processor threw
  wres,            \* worker -> result the processor returned
  wlocal,          \* worker -> local variables of processSearchEbook
  tpc,             \* fetch-ebook call -> position in the handler
  tlocal,          \* fetch-ebook call -> what the handler read, its response
  failures,        \* job id -> number of processor runs that threw (history)
  searchResults,   \* ranking pass: the candidates returned by the search
  rankedResults,   \* ranking pass: output of rankTorrents
  filteredResults, \* ranking pass: the qualifying candidates
  bestResult,      \* ranking pass: the candidate handed to addDownloadJob
  rankPc,          \* ranking pass: "off", "input", "no_results", "no_quality", "selected"
  scTarget,        \* scoring: words of the requested title
  scCandidate,     \* scoring: words of the torrent title
  scInputs,        \* scoring: points of the stages after the coverage filter
  scScore,         \* scoring: the base score computed
  scPc,            \* scoring: "off", "input", "scored"
  logEnv,          \* logger: value of the LOG_LEVEL environment variable
  logJobId,        \* logger: job id the logger was created with (0: none)
  logContext,      \* logger: number of sub-contexts appended by child()
  logLast,         \* logger: level of the latest log call ("none": no call yet)
  logConsole,      \* logger: levels of the messages written to the console
  logPending,      \* logger: jobEvent.create calls in flight, by level
  logEvents,       \* logger: levels of the job events persisted
  logCalls,        \* logger: number of log calls that returned to the caller
  logCaller,       \* logger: state of the calling job: "off", "running", "aborted"
  callArgs,        \* call of a pure function: its arguments
  callResult,      \* call of a pure function: the value returned
  callPc,          \* call of a pure function: "off", "called", "returned"
  users,           \* User table: user id -> registrationStatus, or "deleted"
  apc,             \* approval call -> position in the handler
  alocal,          \* approval call -> what the handler read, its response
  cacheDir,        \* thumbnail cache: the file names in CACHE_DIR
  thumbCached,     \* thumbnail cache: <<asin, file>> written by cacheThumbnail
  cleanPc,         \* cleanup: "idle", "listed", "done", "failed"
  cleanActive,     \* cleanup: the argument activeAsins
  cleanListed,     \* cleanup: the result of readdir
  cleanFiles,      \* cleanup: the files the loop has still to visit
  cleanDeleted,    \* cleanup: the files unlinked by this call (history)
  deletedCount,    \* cleanup: the local counter
  cleanResult      \* cleanup: the number returned

queueVars == <<jobs, requests, downloadHistory, wpc, wjob, werr, wres, wlocal, failures>>
triggerVars == <<tpc, tlocal>>
rankVars == <<searchResults, rankedResults, filteredResults, bestResult, rankPc>>
scoreVars == <<scTarget, scCandidate, scInputs, scScore, scPc>>
logVars == <<logEnv, logJobId, logContext, logLast, logConsole, logPending, logEvents,
            logCalls, logCaller>>
callVars == <<callArgs, callResult, callPc>>
approveVars == <<users, apc, alocal>>
cacheVars == <<cacheDir, thumbCached, cleanPc, cleanActive, cleanListed, cleanFiles,
              cleanDeleted, deletedCount, cleanResult>>
auxVars == <<scoreVars, logVars, callVars, approveVars, cacheVars>>
vars == <<jobs, requests, downloadHistory, wpc, wjob, werr, wres, wlocal,
          failures, tpc, tlocal, searchResults, rankedResults, filteredResults, bestResult, rankPc,
          scTarget, scCandidate, scInputs, scScore, scPc,
          logEnv, logJobId, logContext, logLast, logConsole, logPending, logEvents,
          logCalls, logCaller, callArgs, callResult, callPc,
          users, apc, alocal,
          cacheDir, thumbCached, cleanPc, cleanActive, cleanListed, cleanFiles,
          cleanDeleted, deletedCount, cleanResult>>

(***************************************************************************)
(* Constants of the program.                                               *)
(***************************************************************************)
ScoreThreshold == 50

MsgNoIndexersConfigured == "No indexers configured. Please configure indexers in settings."
MsgNoIndexersEnabled == "No indexers enabled. Please enable at least one indexer in settings."
MsgNoTorrents == "No torrents found. Will retry automatically."
MsgNoQuality == "No quality matches found. Will retry automatically."
MsgNoEbook == "No ebook found on Anna's Archive. Will retry automatically."
MsgNoLinks == "Found ebook but no download links available. Will retry automatically."
\* message text of an exception raised by the external search service
MsgServiceError == "timeout of 30000ms exceeded"
\* message text of the SyntaxError JSON.parse raises on a malformed setting
MsgParseError == "Unexpected end of JSON input"
\* message text of the database error of an update that finds no record
MsgDatabaseError == "Record to update not found."

ConfigErrors == {MsgNoIndexersConfigured, MsgNoIndexersEnabled}

SearchJobTypes == {"search_indexers", "search_ebook"}

JobIds == 1..Len(jobs)
RequestIds == 1..Len(requests)

(***************************************************************************)
(* Ranking: rankTorrents, the dual threshold filter and the selection.     *)
(* A candidate is its base score and its bonus points as the scoring       *)
(* stages give them; guid is its position in the search output.            *)
(***************************************************************************)
Better(a, b) ==
  \/ a.finalScore > b.finalScore
  \/ a.finalScore = b.finalScore /\ a.score > b.score

RECURSIVE InsertRanked(_, _)
InsertRanked(x, s) ==
  IF s = <<>> THEN <<x>>
  ELSE IF ~Better(Head(s), x) THEN <<x>> \o s
  ELSE <<Head(s)>> \o InsertRanked(x, Tail(s))

RECURSIVE SortRanked(_)
SortRanked(s) ==
  IF s = <<>> THEN <<>> ELSE InsertRanked(Head(s), SortRanked(Tail(s)))

rankTorrents(torrents) ==
  SortRanked([i \in 1..Len(torrents) |->
     [guid |-> i,
      score |-> torrents[i].score,
      bonusPoints |-> torrents[i].bonusPoints,
      finalScore |-> torrents[i].score + torrents[i].bonusPoints]])

\* the filter without the second threshold
QualifiesBaseOnly(result) == result.score >= ScoreThreshold

Qualifies(result) ==
  result.score >= ScoreThreshold /\ result.finalScore >= ScoreThreshold

\* the filter keeping every ranked result
filterResultsKeepAll(ranked) == ranked

filterResults(ranked) == SelectSeq(ranked, Qualifies)

\* the selection taking the last qualifying candidate
selectLast(filtered) == filtered[Len(filtered)]

selectBest(filtered) == filtered[1]

(***************************************************************************)
(* Job queue (job-queue.service): enqueue, claimNext, complete, fail.      *)
(***************************************************************************)
NewJob(type, requestId, maxAttempts, payload) ==
  [type |-> type, requestId |-> requestId, status |-> "queued",
   attempts |-> 0, maxAttempts |-> maxAttempts, errorMessage |-> "",
   completedAt |-> FALSE, result |-> "none", payload |-> payload]

enqueue(q, type, requestId, maxAttempts, payload) ==
  Append(q, NewJob(type, requestId, maxAttempts, payload))

\* a claim that reads the status and writes it later: a job another worker
\* has just taken still looks queued
ClaimableStale(job) == job.status \in {"queued", "running"}

\* the condition of the atomic claim: the job is still queued
Claimable(job) == job.status = "queued"

\* complete that does not set completedAt
completeJobNoTimestamp(job, result) ==
  [job EXCEPT !.status = "completed", !.result = result]

completeJob(job, result) ==
  [job EXCEPT !.status = "completed", !.result = result, !.completedAt = TRUE]

\* fail that requeues once more than maxAttempts allows
failJobOffByOne(job, error) ==
  IF job.attempts + 1 <= job.maxAttempts
  THEN [job EXCEPT !.attempts = job.attempts + 1, !.status = "queued"]
  ELSE [job EXCEPT !.attempts = job.attempts + 1, !.status = "failed",
                   !.errorMessage = error]

\* fail that requeues whatever the number of attempts
failJobAlwaysRequeue(job, error) ==
  [job EXCEPT !.attempts = job.attempts + 1, !.status = "queued"]

\* fail that does not count the attempt
failJobNoCount(job, error) ==
  IF job.attempts + 1 < job.maxAttempts
  THEN [job EXCEPT !.status = "queued"]
  ELSE [job EXCEPT !.status = "failed", !.errorMessage = error]

\* fail that leaves a job with attempts left in running
failJobKeepsRunning(job, error) ==
  IF job.attempts + 1 < job.maxAttempts
  THEN [job EXCEPT !.attempts = job.attempts + 1]
  ELSE [job EXCEPT !.attempts = job.attempts + 1, !.status = "failed",
                   !.errorMessage = error]

failJob(job, error) ==
  IF job.attempts + 1 < job.maxAttempts
  THEN [job EXCEPT !.attempts = job.attempts + 1, !.status = "queued"]
  ELSE [job EXCEPT !.attempts = job.attempts + 1, !.status = "failed",
                   !.errorMessage = error]

NumSearchJobs == Cardinality({j \in JobIds : jobs[j].type \in SearchJobTypes})

NumSidecarJobs == Cardinality({j \in JobIds : jobs[j].type = "search_ebook"})

(***************************************************************************)
(* External collaborator: a request was created, or the scheduled sweep    *)
(* re-searches a request that is awaiting_search.                          *)
(***************************************************************************)
SearchTypeOf(r) ==
  IF requests[r].type = "ebook" THEN "search_ebook" ELSE "search_indexers"

EnqueueSearch(r, m) ==
  /\ NumSearchJobs < MaxJobs
  /\ requests[r].deletedAt = FALSE
  /\ requests[r].status \in {"pending", "awaiting_search"}
  /\ jobs' = enqueue(jobs, SearchTypeOf(r), r, m, "none")
  /\ failures' = Append(failures, 0)
  /\ UNCHANGED <<requests, downloadHistory, wpc, wjob, werr, wres, wlocal>>
  /\ UNCHANGED <<tpc, tlocal>>
  /\ UNCHANGED <<rankVars, auxVars>>

(***************************************************************************)
(* Request updates made by the search processors.                          *)
(***************************************************************************)
\* status: 'searching', searchAttempts: { increment: 1 }
markSearching(req) ==
  [req EXCEPT !.status = "searching", !.searchAttempts = req.searchAttempts + 1]

\* the no-candidate paths treated as a failure of the Request
markAwaitingAsFailed(req, message) ==
  [req EXCEPT !.status = "failed", !.errorMessage = message]

\* status: 'awaiting_search', errorMessage: <fixed message>
markAwaitingSearch(req, message) ==
  [req EXCEPT !.status = "awaiting_search", !.errorMessage = message]

\* a catch block that leaves the Request as it is
markFailedLogOnly(req, message) == req

\* the catch block: status: 'failed', errorMessage: error.message
markFailed(req, message) ==
  [req EXCEPT !.status = "failed", !.errorMessage = message]

(***************************************************************************)
(* Worker loop: claimNext, run the processor, complete or fail.            *)
(***************************************************************************)
\* tried: the download locations the download processor has used up
NoLocals == [historyId |-> 0, slowLinks |-> <<>>, searchMethod |-> "title", tried |-> 0]

claimNext(w, j) ==
  /\ wpc[w] = "idle"
  /\ jobs[j].type \in SearchJobTypes
  /\ Claimable(jobs[j])
  /\ jobs' = [jobs EXCEPT ![j].status = "running"]
  /\ wpc' = [wpc EXCEPT ![w] = "claimed"]
  /\ wjob' = [wjob EXCEPT ![w] = j]
  /\ UNCHANGED <<requests, downloadHistory, werr, wres, wlocal, failures>>
  /\ UNCHANGED <<tpc, tlocal>>
  /\ UNCHANGED <<rankVars, auxVars>>

\* both processors start with the same update of the Request
BeginSearch(w) ==
  /\ wpc[w] = "claimed"
  /\ LET r == jobs[wjob[w]].requestId IN
       requests' = [requests EXCEPT ![r] = markSearching(requests[r])]
  /\ wpc' = [wpc EXCEPT ![w] = "searching"]
  /\ UNCHANGED <<jobs, downloadHistory, wjob, werr, wres, wlocal, failures>>
  /\ UNCHANGED <<tpc, tlocal>>
  /\ UNCHANGED <<rankVars, auxVars>>

\* an error thrown inside the try block: the catch block updates the Request
\* and rethrows
ProcessorThrows(w, message) ==
  /\ LET r == jobs[wjob[w]].requestId IN
       requests' = [requests EXCEPT ![r] = markFailed(requests[r], message)]
  /\ wpc' = [wpc EXCEPT ![w] = "threw"]
  /\ werr' = [werr EXCEPT ![w] = message]
  /\ failures' = [failures EXCEPT ![wjob[w]] = failures[wjob[w]] + 1]
  /\ UNCHANGED <<jobs, downloadHistory, wjob, wres, wlocal>>
  /\ UNCHANGED <<tpc, tlocal>>
  /\ UNCHANGED <<rankVars, auxVars>>

\* the no-candidate paths: the Request waits for the next search, the
\* processor returns { success: false }
ProcessorNoCandidate(w, message) ==
  /\ LET r == jobs[wjob[w]].requestId IN
       requests' = [requests EXCEPT ![r] = markAwaitingSearch(requests[r], message)]
  /\ wpc' = [wpc EXCEPT ![w] = "returned"]
  /\ wres' = [wres EXCEPT ![w] = "no_candidate"]
  /\ UNCHANGED <<jobs, downloadHistory, wjob, werr, wlocal, failures>>
  /\ UNCHANGED <<tpc, tlocal>>
  /\ UNCHANGED <<rankVars, auxVars>>

InIndexers(w) ==
  wpc[w] = "searching" /\ jobs[wjob[w]].type = "search_indexers"

InEbook(w) ==
  wpc[w] = "searching" /\ jobs[wjob[w]].type = "search_ebook"

(***************************************************************************)
(* processSearchIndexers                                                   *)
(***************************************************************************)
\* prowlarr_indexers is not set, or the configured list is empty
IndexersConfigError(w, message) ==
  /\ InIndexers(w)
  /\ message \in ConfigErrors
  /\ ProcessorThrows(w, message)

\* JSON.parse(indexersConfigStr) throws
IndexersParseError(w) ==
  /\ InIndexers(w)
  /\ ProcessorThrows(w, MsgParseError)

\* prowlarr.search() throws
IndexersSearchError(w) ==
  /\ InIndexers(w)
  /\ ProcessorThrows(w, MsgServiceError)

IndexersNoResults(w) ==
  /\ InIndexers(w)
  /\ ProcessorNoCandidate(w, MsgNoTorrents)

IndexersBelowThreshold(w, results) ==
  /\ InIndexers(w)
  /\ results # <<>>
  /\ filterResults(rankTorrents(results)) = <<>>
  /\ ProcessorNoCandidate(w, MsgNoQuality)

IndexersSelect(w, results) ==
  /\ InIndexers(w)
  /\ results # <<>>
  /\ LET filtered == filterResults(rankTorrents(results)) IN
       /\ filtered # <<>>
       /\ jobs' = enqueue(jobs, "download_torrent", jobs[wjob[w]].requestId,
                          MaxAttemptsBound, selectBest(filtered))
  /\ failures' = Append(failures, 0)
  /\ wpc' = [wpc EXCEPT ![w] = "returned"]
  /\ wres' = [wres EXCEPT ![w] = "selected"]
  /\ UNCHANGED <<requests, downloadHistory, wjob, werr, wlocal>>
  /\ UNCHANGED <<tpc, tlocal>>
  /\ UNCHANGED <<rankVars, auxVars>>

(***************************************************************************)
(* processSearchEbook                                                      *)
(***************************************************************************)
\* searchByAsin first, searchByTitle when there is no ASIN or no ASIN hit
\* the search that reports a content handle whatever the lookups returned
ebookSearchAlwaysFound(hasAsin, asinHit, titleHit) ==
  IF hasAsin /\ asinHit
    THEN [found |-> TRUE, searchMethod |-> "asin", lookups |-> <<"asin">>]
    ELSE [found |-> TRUE, searchMethod |-> "title",
          lookups |-> IF hasAsin THEN <<"asin", "title">> ELSE <<"title">>]

\* lookups: the scraper calls made, in their order
ebookSearch(hasAsin, asinHit, titleHit) ==
  IF hasAsin /\ asinHit
    THEN [found |-> TRUE, searchMethod |-> "asin", lookups |-> <<"asin">>]
    ELSE [found |-> titleHit, searchMethod |-> "title",
          lookups |-> IF hasAsin THEN <<"asin", "title">> ELSE <<"title">>]

\* the score that does not tell the lookups apart
ebookScoreFlat(searchMethod) == 80

ebookScore(searchMethod) == IF searchMethod = "asin" THEN 100 ELSE 80

\* one of the scraper calls throws
EbookSearchError(w) ==
  /\ InEbook(w)
  /\ ProcessorThrows(w, MsgServiceError)

EbookNotFound(w, hasAsin, asinHit, titleHit) ==
  /\ InEbook(w)
  /\ ~ebookSearch(hasAsin, asinHit, titleHit).found
  /\ ProcessorNoCandidate(w, MsgNoEbook)

EbookNoLinks(w, hasAsin, asinHit, titleHit) ==
  /\ InEbook(w)
  /\ ebookSearch(hasAsin, asinHit, titleHit).found
  /\ ProcessorNoCandidate(w, MsgNoLinks)

\* downloadHistory.create, then addStartDirectDownloadJob with the first link
EbookEnqueueDownload(w, hasAsin, asinHit, titleHit, slowLinks) ==
  /\ InEbook(w)
  /\ slowLinks # <<>>
  /\ LET found == ebookSearch(hasAsin, asinHit, titleHit)
         r == jobs[wjob[w]].requestId
         h == Len(downloadHistory) + 1
     IN
       /\ found.found
       /\ downloadHistory' = Append(downloadHistory,
            [requestId |-> r, qualityScore |-> ebookScore(found.searchMethod),
             selected |-> TRUE, downloadClient |-> "direct",
             downloadStatus |-> "queued", torrentUrl |-> <<>>])
       /\ jobs' = enqueue(jobs, "start_direct_download", r, MaxAttemptsBound,
                          [historyId |-> h, downloadUrl |-> slowLinks[1]])
       /\ wlocal' = [wlocal EXCEPT ![w] =
            [historyId |-> h, slowLinks |-> slowLinks,
             searchMethod |-> found.searchMethod, tried |-> 0]]
  /\ failures' = Append(failures, 0)
  /\ wpc' = [wpc EXCEPT ![w] = "enqueued"]
  /\ UNCHANGED <<requests, wjob, werr, wres>>
  /\ UNCHANGED <<tpc, tlocal>>
  /\ UNCHANGED <<rankVars, auxVars>>

\* downloadHistory.update: torrentUrl: JSON.stringify(slowLinks); return
EbookStoreLinks(w) ==
  /\ wpc[w] = "enqueued"
  /\ downloadHistory' = [downloadHistory EXCEPT
       ![wlocal[w].historyId].torrentUrl = wlocal[w].slowLinks]
  /\ wpc' = [wpc EXCEPT ![w] = "returned"]
  /\ wres' = [wres EXCEPT ![w] = "selected"]
  /\ wlocal' = [wlocal EXCEPT ![w] = NoLocals]
  /\ UNCHANGED <<jobs, requests, wjob, werr, failures>>
  /\ UNCHANGED <<tpc, tlocal>>
  /\ UNCHANGED <<rankVars, auxVars>>

\* downloadHistory.update throws, after the download job was enqueued
EbookStoreLinksError(w) ==
  /\ wpc[w] = "enqueued"
  /\ ProcessorThrows(w, MsgDatabaseError)

(***************************************************************************)
(* start_direct_download: the download processor with its fallback chain.  *)
(* It knows the location of its payload and, once the search processor has *)
(* stored them, the locations of the DownloadHistory record.               *)
(***************************************************************************)
knownLocations(job) ==
  LET stored == downloadHistory[job.payload.historyId].torrentUrl
  IN  IF stored # <<>> THEN stored ELSE <<job.payload.downloadUrl>>

claimDownload(w, j) ==
  /\ wpc[w] = "idle"
  /\ jobs[j].type = "start_direct_download"
  /\ Claimable(jobs[j])
  /\ jobs' = [jobs EXCEPT ![j].status = "running"]
  /\ wpc' = [wpc EXCEPT ![w] = "download_claimed"]
  /\ wjob' = [wjob EXCEPT ![w] = j]
  /\ UNCHANGED <<requests, downloadHistory, werr, wres, wlocal, failures>>
  /\ UNCHANGED <<tpc, tlocal>>
  /\ UNCHANGED <<rankVars, auxVars>>

BeginDownload(w) ==
  /\ wpc[w] = "download_claimed"
  /\ LET r == jobs[wjob[w]].requestId IN
       requests' = [requests EXCEPT ![r] =
         [@ EXCEPT !.status = "downloading", !.progress = 0]]
  /\ wpc' = [wpc EXCEPT ![w] = "downloading"]
  /\ wlocal' = [wlocal EXCEPT ![w] =
       [NoLocals EXCEPT !.historyId = jobs[wjob[w]].payload.historyId]]
  /\ UNCHANGED <<jobs, downloadHistory, wjob, werr, wres, failures>>
  /\ UNCHANGED <<tpc, tlocal>>
  /\ UNCHANGED <<rankVars, auxVars>>

\* the location at hand fails: go on with the next known one, or give up
\* when none is left (Request -> failed with the last error, rethrow)
DownloadLinkFails(w) ==
  /\ wpc[w] = "downloading"
  /\ LET job == jobs[wjob[w]]
         r == job.requestId
         tried == wlocal[w].tried + 1
     IN
       IF tried < Len(knownLocations(job))
       THEN /\ wlocal' = [wlocal EXCEPT ![w].tried = tried]
            /\ UNCHANGED <<requests, wpc, werr, failures>>
       ELSE /\ requests' = [requests EXCEPT ![r] = markFailed(requests[r], MsgServiceError)]
            /\ wpc' = [wpc EXCEPT ![w] = "threw"]
            /\ werr' = [werr EXCEPT ![w] = MsgServiceError]
            /\ failures' = [failures EXCEPT ![wjob[w]] = failures[wjob[w]] + 1]
            /\ wlocal' = [wlocal EXCEPT ![w] = NoLocals]
  /\ UNCHANGED <<jobs, downloadHistory, wjob, wres>>
  /\ UNCHANGED <<tpc, tlocal>>
  /\ UNCHANGED <<rankVars, auxVars>>

DownloadSucceeds(w) ==
  /\ wpc[w] = "downloading"
  /\ LET r == jobs[wjob[w]].requestId IN
       requests' = [requests EXCEPT ![r] =
         [@ EXCEPT !.status = "processing", !.progress = 100]]
  /\ wpc' = [wpc EXCEPT ![w] = "returned"]
  /\ wres' = [wres EXCEPT ![w] = "downloaded"]
  /\ wlocal' = [wlocal EXCEPT ![w] = NoLocals]
  /\ UNCHANGED <<jobs, downloadHistory, wjob, werr, failures>>
  /\ UNCHANGED <<tpc, tlocal>>
  /\ UNCHANGED <<rankVars, auxVars>>

(***************************************************************************)
(* Worker loop, after the processor: a return is routed to complete, a     *)
(* throw to fail.                                                          *)
(***************************************************************************)
CompleteJob(w) ==
  /\ wpc[w] = "returned"
  /\ jobs' = [jobs EXCEPT ![wjob[w]] = completeJob(jobs[wjob[w]], wres[w])]
  /\ wpc' = [wpc EXCEPT ![w] = "idle"]
  /\ wjob' = [wjob EXCEPT ![w] = 0]
  /\ wres' = [wres EXCEPT ![w] = "none"]
  /\ UNCHANGED <<requests, downloadHistory, werr, wlocal, failures>>
  /\ UNCHANGED <<tpc, tlocal>>
  /\ UNCHANGED <<rankVars, auxVars>>

FailJob(w) ==
  /\ wpc[w] = "threw"
  /\ jobs' = [jobs EXCEPT ![wjob[w]] = failJob(jobs[wjob[w]], werr[w])]
  /\ wpc' = [wpc EXCEPT ![w] = "idle"]
  /\ wjob' = [wjob EXCEPT ![w] = 0]
  /\ werr' = [werr EXCEPT ![w] = ""]
  /\ UNCHANGED <<requests, downloadHistory, wres, wlocal, failures>>
  /\ UNCHANGED <<tpc, tlocal>>
  /\ UNCHANGED <<rankVars, auxVars>>

(***************************************************************************)
(* Fetch e-book endpoint: POST for a parent request.  The handler reads    *)
(* (configuration, parent, existing ebook request), then writes.           *)
(***************************************************************************)
\* the check of the parent passing a request that is still pending
IsCompletedOrPending(status) == status \in {"downloaded", "available", "pending"}

IsCompleted(status) == status \in {"downloaded", "available"}

\* the retry taken in every status but the completed ones
IsRetryableUnlessCompleted(status) == status \notin {"downloaded", "available"}

\* the retry taken for failed requests only
IsRetryableFailedOnly(status) == status = "failed"

IsRetryable(status) == status \in {"failed", "awaiting_search"}

\* prisma.request.findFirst({ parentRequestId, type: 'ebook', deletedAt: null })
ExistingEbookRequests(p) ==
  {r \in RequestIds : /\ requests[r].parentRequestId = p
                      /\ requests[r].type = "ebook"
                      /\ requests[r].deletedAt = FALSE}

NoTrigger == [parent |-> 0, existing |-> 0, existingStatus |-> "", response |-> 0]

\* the early returns: feature disabled (400), parent missing (404), parent not
\* completed (400)
PostRejected(t, p, enabled) ==
  /\ tpc[t] = "idle"
  /\ \/ ~enabled /\ tlocal' = [tlocal EXCEPT ![t] = [NoTrigger EXCEPT !.response = 400]]
     \/ /\ enabled
        /\ p \notin RequestIds
        /\ tlocal' = [tlocal EXCEPT ![t] = [NoTrigger EXCEPT !.response = 404]]
     \/ /\ enabled
        /\ p \in RequestIds
        /\ ~IsCompleted(requests[p].status)
        /\ tlocal' = [tlocal EXCEPT ![t] = [NoTrigger EXCEPT !.response = 400]]
  /\ UNCHANGED tpc
  /\ UNCHANGED queueVars
  /\ UNCHANGED <<rankVars, auxVars>>

PostLookup(t, p) ==
  /\ tpc[t] = "idle"
  /\ p \in RequestIds
  /\ IsCompleted(requests[p].status)
  /\ \/ /\ ExistingEbookRequests(p) = {}
        /\ tlocal' = [tlocal EXCEPT ![t] = [NoTrigger EXCEPT !.parent = p]]
     \/ \E e \in ExistingEbookRequests(p) :
          tlocal' = [tlocal EXCEPT ![t] =
            [parent |-> p, existing |-> e,
             existingStatus |-> requests[e].status, response |-> 0]]
  /\ tpc' = [tpc EXCEPT ![t] = "found"]
  /\ UNCHANGED queueVars
  /\ UNCHANGED <<rankVars, auxVars>>

\* the existing request is failed or awaiting_search: reset it and search again
PostRetry(t, m) ==
  /\ tpc[t] = "found"
  /\ tlocal[t].existing # 0
  /\ IsRetryable(tlocal[t].existingStatus)
  /\ NumSidecarJobs < MaxSidecarJobs
  /\ LET e == tlocal[t].existing IN
       /\ requests' = [requests EXCEPT ![e] =
            [@ EXCEPT !.status = "pending", !.progress = 0, !.errorMessage = ""]]
       /\ jobs' = enqueue(jobs, "search_ebook", e, m, "none")
  /\ failures' = Append(failures, 0)
  /\ tpc' = [tpc EXCEPT ![t] = "idle"]
  /\ tlocal' = [tlocal EXCEPT ![t] = [NoTrigger EXCEPT !.response = 200]]
  /\ UNCHANGED <<downloadHistory, wpc, wjob, werr, wres, wlocal>>
  /\ UNCHANGED <<rankVars, auxVars>>

\* the existing request is in any other status: nothing is written
PostAlreadyExists(t) ==
  /\ tpc[t] = "found"
  /\ tlocal[t].existing # 0
  /\ ~IsRetryable(tlocal[t].existingStatus)
  /\ tpc' = [tpc EXCEPT ![t] = "idle"]
  /\ tlocal' = [tlocal EXCEPT ![t] = [NoTrigger EXCEPT !.response = 200]]
  /\ UNCHANGED queueVars
  /\ UNCHANGED <<rankVars, auxVars>>

\* no ebook request yet: create one and start its search
PostCreate(t, m) ==
  /\ tpc[t] = "found"
  /\ tlocal[t].existing = 0
  /\ NumSidecarJobs < MaxSidecarJobs
  /\ requests' = Append(requests,
       [type |-> "ebook", parentRequestId |-> tlocal[t].parent,
        status |-> "pending", progress |-> 0, searchAttempts |-> 0,
        errorMessage |-> "", deletedAt |-> FALSE])
  /\ jobs' = enqueue(jobs, "search_ebook", Len(requests) + 1, m, "none")
  /\ failures' = Append(failures, 0)
  /\ tpc' = [tpc EXCEPT ![t] = "idle"]
  /\ tlocal' = [tlocal EXCEPT ![t] = [NoTrigger EXCEPT !.response = 200]]
  /\ UNCHANGED <<downloadHistory, wpc, wjob, werr, wres, wlocal>>
  /\ UNCHANGED <<rankVars, auxVars>>

(***************************************************************************)
(* The external collaborator that abandons a request: deletedAt is set,    *)
(* nothing else is touched.                                                *)
(***************************************************************************)
SoftDelete(r) ==
  /\ requests[r].deletedAt = FALSE
  /\ requests' = [requests EXCEPT ![r] = [@ EXCEPT !.deletedAt = TRUE]]
  /\ UNCHANGED <<jobs, downloadHistory, wpc, wjob, werr, wres, wlocal, failures>>
  /\ UNCHANGED <<triggerVars, rankVars, auxVars>>

(***************************************************************************)
(* Inputs of the model.                                                    *)
(***************************************************************************)
\* scored candidates the search can return: disqualified by a negative
\* bonus, qualifying, and below the base threshold
CandidatePool ==
  { [score |-> 80, bonusPoints |-> -40],
    [score |-> 60, bonusPoints |-> 0],
    [score |-> 40, bonusPoints |-> 20] }

SeqsUpTo(S, n) == UNION {[1..k -> S] : k \in 0..n}

ResultLists == SeqsUpTo(CandidatePool, MaxResults)

LinkLists == {<<>>, <<"u1">>, <<"u1", "u2">>}

AudiobookRequest(status, progress, searchAttempts) ==
  [type |-> "audiobook", parentRequestId |-> 0, status |-> status,
   progress |-> progress, searchAttempts |-> searchAttempts,
   errorMessage |-> "", deletedAt |-> FALSE]

\* a completed audiobook request and one that was just created
PrimaryRequests ==
  << AudiobookRequest("downloaded", 100, 1), AudiobookRequest("pending", 0, 0) >>

\* the ebook request of the completed audiobook, after a search without match
SidecarRequest ==
  [type |-> "ebook", parentRequestId |-> 1, status |-> "awaiting_search",
   progress |-> 0, searchAttempts |-> 1, errorMessage |-> MsgNoEbook,
   deletedAt |-> FALSE]

InitTables(reqs) ==
  /\ jobs = <<>>
  /\ requests = reqs
  /\ downloadHistory = <<>>
  /\ wpc = [w \in Workers |-> "idle"]
  /\ wjob = [w \in Workers |-> 0]
  /\ werr = [w \in Workers |-> ""]
  /\ wres = [w \in Workers |-> "none"]
  /\ wlocal = [w \in Workers |-> NoLocals]
  /\ failures = <<>>
  /\ tpc = [t \in Triggers |-> "idle"]
  /\ tlocal = [t \in Triggers |-> NoTrigger]

NoRanking ==
  /\ searchResults = <<>>
  /\ rankedResults = <<>>
  /\ filteredResults = <<>>
  /\ bestResult = 0
  /\ rankPc = "off"

NoScoring ==
  /\ scTarget = <<>>
  /\ scCandidate = <<>>
  /\ scInputs = 0
  /\ scScore = 0
  /\ scPc = "off"

NoLogging ==
  /\ logEnv = "unset"
  /\ logJobId = 0
  /\ logContext = 0
  /\ logLast = "none"
  /\ logConsole = <<>>
  /\ logPending = <<>>
  /\ logEvents = <<>>
  /\ logCalls = 0
  /\ logCaller = "off"

NoCall ==
  /\ callArgs = 0
  /\ callResult = 0
  /\ callPc = "off"

NoApproval ==
  /\ users = <<>>
  /\ apc = <<>>
  /\ alocal = <<>>

NoCache ==
  /\ cacheDir = {}
  /\ thumbCached = {}
  /\ cleanPc = "off"
  /\ cleanActive = {}
  /\ cleanListed = {}
  /\ cleanFiles = {}
  /\ cleanDeleted = {}
  /\ deletedCount = 0
  /\ cleanResult = 0

NoAux == NoScoring /\ NoLogging /\ NoCall /\ NoApproval /\ NoCache

(***************************************************************************)
(* Spec: the job queue, its workers and the two search processors.         *)
(***************************************************************************)
Init == InitTables(Append(PrimaryRequests, SidecarRequest)) /\ NoRanking /\ NoAux

Next ==
  \/ \E r \in RequestIds, m \in 1..MaxAttemptsBound : EnqueueSearch(r, m)
  \/ \E w \in Workers, j \in JobIds : claimNext(w, j)
  \/ \E w \in Workers : BeginSearch(w)
  \/ \E w \in Workers, message \in ConfigErrors : IndexersConfigError(w, message)
  \/ \E w \in Workers : IndexersSearchError(w)
  \/ \E w \in Workers : IndexersNoResults(w)
  \/ \E w \in Workers, results \in ResultLists : IndexersBelowThreshold(w, results)
  \/ \E w \in Workers, results \in ResultLists : IndexersSelect(w, results)
  \/ \E w \in Workers : EbookSearchError(w)
  \/ \E w \in Workers, hasAsin, asinHit, titleHit \in BOOLEAN :
       EbookNotFound(w, hasAsin, asinHit, titleHit)
  \/ \E w \in Workers, hasAsin, asinHit, titleHit \in BOOLEAN :
       EbookNoLinks(w, hasAsin, asinHit, titleHit)
  \/ \E w \in Workers, hasAsin, asinHit, titleHit \in BOOLEAN, links \in LinkLists :
       EbookEnqueueDownload(w, hasAsin, asinHit, titleHit, links)
  \/ \E w \in Workers : EbookStoreLinks(w)
  \/ \E w \in Workers : CompleteJob(w)
  \/ \E w \in Workers : FailJob(w)

Spec == Init /\ [][Next]_vars

(***************************************************************************)
(* SpecSidecar: the life of a sidecar request, from the fetch-ebook        *)
(* endpoint through the ebook search jobs, starting before any ebook       *)
(* request exists.  The calls of the endpoint come one at a time.           *)
(***************************************************************************)
InitSidecar == InitTables(PrimaryRequests) /\ NoRanking /\ NoAux

NextSidecar ==
  \/ \E t \in {1}, p \in 1..(Len(requests) + 1), enabled \in BOOLEAN :
       PostRejected(t, p, enabled)
  \/ \E t \in {1}, p \in RequestIds : PostLookup(t, p)
  \/ \E t \in {1}, m \in 1..MaxAttemptsBound : PostRetry(t, m)
  \/ \E t \in {1} : PostAlreadyExists(t)
  \/ \E t \in {1}, m \in 1..MaxAttemptsBound : PostCreate(t, m)
  \/ \E w \in Workers, j \in JobIds : claimNext(w, j)
  \/ \E w \in Workers : BeginSearch(w)
  \/ \E w \in Workers : EbookSearchError(w)
  \/ \E w \in Workers, hasAsin, asinHit, titleHit \in BOOLEAN :
       EbookNotFound(w, hasAsin, asinHit, titleHit)
  \/ \E w \in Workers, hasAsin, asinHit, titleHit \in BOOLEAN :
       EbookNoLinks(w, hasAsin, asinHit, titleHit)
  \/ \E w \in Workers, hasAsin, asinHit, titleHit \in BOOLEAN, links \in LinkLists :
       EbookEnqueueDownload(w, hasAsin, asinHit, titleHit, links)
  \/ \E w \in Workers : EbookStoreLinks(w)
  \/ \E w \in Workers : CompleteJob(w)
  \/ \E w \in Workers : FailJob(w)

SpecSidecar == InitSidecar /\ [][NextSidecar]_vars

(***************************************************************************)
(* SpecRank: one ranking pass of processSearchIndexers over every list of  *)
(* scored candidates: rankTorrents, the filter, the selection.             *)
(***************************************************************************)
RankScores == {40, 50, 60, 80}
RankBonuses == {-40, 0, 10}

RankPool == [score : RankScores, bonusPoints : RankBonuses]

InitRank ==
  /\ InitTables(PrimaryRequests)
  /\ searchResults \in SeqsUpTo(RankPool, MaxCandidates)
  /\ rankedResults = <<>>
  /\ filteredResults = <<>>
  /\ bestResult = 0
  /\ rankPc = "input"
  /\ NoAux

RankNoResults ==
  /\ rankPc = "input"
  /\ searchResults = <<>>
  /\ rankPc' = "no_results"
  /\ UNCHANGED <<searchResults, rankedResults, filteredResults, bestResult>>
  /\ UNCHANGED queueVars
  /\ UNCHANGED <<triggerVars, auxVars>>

RankBelowThreshold ==
  /\ rankPc = "input"
  /\ searchResults # <<>>
  /\ filterResults(rankTorrents(searchResults)) = <<>>
  /\ rankedResults' = rankTorrents(searchResults)
  /\ filteredResults' = <<>>
  /\ rankPc' = "no_quality"
  /\ UNCHANGED <<searchResults, bestResult>>
  /\ UNCHANGED queueVars
  /\ UNCHANGED <<triggerVars, auxVars>>

RankSelect ==
  /\ rankPc = "input"
  /\ searchResults # <<>>
  /\ filterResults(rankTorrents(searchResults)) # <<>>
  /\ rankedResults' = rankTorrents(searchResults)
  /\ filteredResults' = filterResults(rankTorrents(searchResults))
  /\ bestResult' = selectBest(filterResults(rankTorrents(searchResults)))
  /\ rankPc' = "selected"
  /\ UNCHANGED searchResults
  /\ UNCHANGED queueVars
  /\ UNCHANGED <<triggerVars, auxVars>>

NextRank == RankNoResults \/ RankBelowThreshold \/ RankSelect

SpecRank == InitRank /\ [][NextRank]_vars

(***************************************************************************)
(* SpecThrow: the two search processors with an exception at each of       *)
(* their steps, on a search job of either kind that is already queued.     *)
(***************************************************************************)
InitThrow ==
  /\ requests = Append(PrimaryRequests, SidecarRequest)
  /\ jobs \in {<<NewJob(SearchTypeOf(r), r, m, "none")>> :
                  r \in {2, 3}, m \in 1..MaxAttemptsBound}
  /\ failures = <<0>>
  /\ downloadHistory = <<>>
  /\ wpc = [w \in Workers |-> "idle"]
  /\ wjob = [w \in Workers |-> 0]
  /\ werr = [w \in Workers |-> ""]
  /\ wres = [w \in Workers |-> "none"]
  /\ wlocal = [w \in Workers |-> NoLocals]
  /\ tpc = [t \in Triggers |-> "idle"]
  /\ tlocal = [t \in Triggers |-> NoTrigger]
  /\ NoRanking
  /\ NoAux

NextThrow ==
  \/ \E w \in Workers, j \in JobIds : claimNext(w, j)
  \/ \E w \in Workers : BeginSearch(w)
  \/ \E w \in Workers, message \in ConfigErrors : IndexersConfigError(w, message)
  \/ \E w \in Workers : IndexersParseError(w)
  \/ \E w \in Workers : IndexersSearchError(w)
  \/ \E w \in Workers : IndexersNoResults(w)
  \/ \E w \in Workers, results \in ResultLists : IndexersBelowThreshold(w, results)
  \/ \E w \in Workers, results \in ResultLists : IndexersSelect(w, results)
  \/ \E w \in Workers : EbookSearchError(w)
  \/ \E w \in Workers, hasAsin, asinHit, titleHit \in BOOLEAN :
       EbookNotFound(w, hasAsin, asinHit, titleHit)
  \/ \E w \in Workers, hasAsin, asinHit, titleHit \in BOOLEAN :
       EbookNoLinks(w, hasAsin, asinHit, titleHit)
  \/ \E w \in Workers, hasAsin, asinHit, titleHit \in BOOLEAN, links \in LinkLists :
       EbookEnqueueDownload(w, hasAsin, asinHit, titleHit, links)
  \/ \E w \in Workers : EbookStoreLinks(w)
  \/ \E w \in Workers : EbookStoreLinksError(w)
  \/ \E w \in Workers : CompleteJob(w)
  \/ \E w \in Workers : FailJob(w)

SpecThrow == InitThrow /\ [][NextThrow]_vars

(***************************************************************************)
(* SpecDelete: the pipeline of Spec while requests are being soft-deleted. *)
(***************************************************************************)
NextDelete ==
  \/ Next
  \/ \E r \in RequestIds : SoftDelete(r)

SpecDelete == Init /\ [][NextDelete]_vars

(***************************************************************************)
(* SpecFetch: concurrent calls of the fetch-ebook endpoint against a       *)
(* Request table that holds no ebook request yet, or one that a search or  *)
(* a download has left behind, while requests are being soft-deleted.      *)
(***************************************************************************)
\* the ebook request of request 1: without match, failed halfway through its
\* download, and downloaded
SidecarStates ==
  { SidecarRequest,
    [SidecarRequest EXCEPT !.status = "failed", !.progress = 40,
                           !.errorMessage = MsgServiceError],
    [SidecarRequest EXCEPT !.status = "downloaded", !.progress = 100,
                           !.errorMessage = ""] }

FetchTables ==
  {PrimaryRequests} \cup {Append(PrimaryRequests, s) : s \in SidecarStates}

InitFetch ==
  /\ \E reqs \in FetchTables : InitTables(reqs)
  /\ NoRanking
  /\ NoAux

NextFetch ==
  \/ \E t \in Triggers, p \in 1..(Len(requests) + 1), enabled \in BOOLEAN :
       PostRejected(t, p, enabled)
  \/ \E t \in Triggers, p \in RequestIds : PostLookup(t, p)
  \/ \E t \in Triggers : PostRetry(t, MaxAttemptsBound)
  \/ \E t \in Triggers : PostAlreadyExists(t)
  \/ \E t \in Triggers : PostCreate(t, MaxAttemptsBound)
  \/ \E r \in RequestIds : SoftDelete(r)

SpecFetch == InitFetch /\ [][NextFetch]_vars

(***************************************************************************)
(* SpecExisting: the POST handler called while the ebook request of the    *)
(* parent is in each of its statuses, or while there is none.              *)
(***************************************************************************)
ExistingStates ==
  SidecarStates \cup
  { [SidecarRequest EXCEPT !.status = "pending", !.progress = 0, !.errorMessage = ""],
    [SidecarRequest EXCEPT !.status = "searching", !.progress = 0, !.errorMessage = ""],
    [SidecarRequest EXCEPT !.status = "downloading", !.progress = 40, !.errorMessage = ""],
    [SidecarRequest EXCEPT !.status = "processing", !.progress = 100, !.errorMessage = ""] }

ExistingTables ==
  {PrimaryRequests} \cup {Append(PrimaryRequests, s) : s \in ExistingStates}

InitExisting ==
  /\ \E reqs \in ExistingTables : InitTables(reqs)
  /\ NoRanking
  /\ NoAux

NextExisting ==
  \/ \E t \in Triggers, p \in 1..(Len(requests) + 1), enabled \in BOOLEAN :
       PostRejected(t, p, enabled)
  \/ \E t \in Triggers, p \in RequestIds : PostLookup(t, p)
  \/ \E t \in Triggers : PostRetry(t, MaxAttemptsBound)
  \/ \E t \in Triggers : PostAlreadyExists(t)
  \/ \E t \in Triggers : PostCreate(t, MaxAttemptsBound)

SpecExisting == InitExisting /\ [][NextExisting]_vars

(***************************************************************************)
(* SpecDownload: one ebook request from its queued search to the end of    *)
(* its direct download.                                                    *)
(***************************************************************************)
\* the state the fetch-ebook endpoint leaves behind: a pending ebook request
\* with its search job queued
InitDownload ==
  /\ requests = Append(PrimaryRequests,
       [SidecarRequest EXCEPT !.status = "pending", !.searchAttempts = 0,
                              !.errorMessage = ""])
  /\ jobs \in {<<NewJob("search_ebook", 3, m, "none")>> : m \in 1..MaxAttemptsBound}
  /\ failures = <<0>>
  /\ downloadHistory = <<>>
  /\ wpc = [w \in Workers |-> "idle"]
  /\ wjob = [w \in Workers |-> 0]
  /\ werr = [w \in Workers |-> ""]
  /\ wres = [w \in Workers |-> "none"]
  /\ wlocal = [w \in Workers |-> NoLocals]
  /\ tpc = [t \in Triggers |-> "idle"]
  /\ tlocal = [t \in Triggers |-> NoTrigger]
  /\ NoRanking
  /\ NoAux

NextDownload ==
  \/ \E w \in Workers, j \in JobIds : claimNext(w, j)
  \/ \E w \in Workers : BeginSearch(w)
  \/ \E w \in Workers : EbookSearchError(w)
  \/ \E w \in Workers, hasAsin, asinHit, titleHit \in BOOLEAN :
       EbookNotFound(w, hasAsin, asinHit, titleHit)
  \/ \E w \in Workers, hasAsin, asinHit, titleHit \in BOOLEAN :
       EbookNoLinks(w, hasAsin, asinHit, titleHit)
  \/ \E w \in Workers, hasAsin, asinHit, titleHit \in BOOLEAN, links \in LinkLists :
       EbookEnqueueDownload(w, hasAsin, asinHit, titleHit, links)
  \/ \E w \in Workers : EbookStoreLinks(w)
  \/ \E w \in Workers, j \in JobIds : claimDownload(w, j)
  \/ \E w \in Workers : BeginDownload(w)
  \/ \E w \in Workers : DownloadLinkFails(w)
  \/ \E w \in Workers : DownloadSucceeds(w)
  \/ \E w \in Workers : CompleteJob(w)
  \/ \E w \in Workers : FailJob(w)

SpecDownload == InitDownload /\ [][NextDownload]_vars

(***************************************************************************)
(* SpecDownloadFair: SpecDownload with workers that keep running: a worker *)
(* that can take a step (claim a job, run the next step of its processor,  *)
(* hand the outcome to complete or fail) eventually takes one.             *)
(***************************************************************************)
WorkerStep(w) ==
  \/ \E j \in JobIds : claimNext(w, j)
  \/ BeginSearch(w)
  \/ EbookSearchError(w)
  \/ \E hasAsin, asinHit, titleHit \in BOOLEAN :
       EbookNotFound(w, hasAsin, asinHit, titleHit)
  \/ \E hasAsin, asinHit, titleHit \in BOOLEAN :
       EbookNoLinks(w, hasAsin, asinHit, titleHit)
  \/ \E hasAsin, asinHit, titleHit \in BOOLEAN, links \in LinkLists :
       EbookEnqueueDownload(w, hasAsin, asinHit, titleHit, links)
  \/ EbookStoreLinks(w)
  \/ \E j \in JobIds : claimDownload(w, j)
  \/ BeginDownload(w)
  \/ DownloadLinkFails(w)
  \/ DownloadSucceeds(w)
  \/ CompleteJob(w)
  \/ FailJob(w)

SpecDownloadFair ==
  /\ InitDownload
  /\ [][NextDownload]_vars
  /\ \A w \in Workers : WF_vars(WorkerStep(w))

(***************************************************************************)
(* SpecScore: the base score of one candidate against one requested title, *)
(* over all titles of the vocabulary.  Stage 1 of the title/author match   *)
(* is the word coverage filter.                                            *)
(***************************************************************************)
StopWords == {"the", "a", "an", "of", "on", "in", "at", "by", "for"}

Vocabulary == {"the", "wild", "robot", "island", "escapes", "home"}

\* "The Wild Robot on the Island", "The Wild Robot", and a title of five
\* significant words
RequestTitles ==
  { <<"the", "wild", "robot", "on", "the", "island">>,
    <<"the", "wild", "robot">>,
    <<"the", "wild", "robot", "escapes", "home", "island">> }

\* points of the stages after the filter: the best torrent there can be, a
\* middling one and the worst
StageInputs ==
  { [matchScore |-> 50, formatScore |-> 25, seederScore |-> 15, sizeScore |-> 10],
    [matchScore |-> 35, formatScore |-> 10, seederScore |-> 6, sizeScore |-> 5],
    [matchScore |-> 0, formatScore |-> 3, seederScore |-> 0, sizeScore |-> 0] }

wordsOf(title) == {title[i] : i \in 1..Len(title)}

significantWords(title) == wordsOf(title) \ StopWords

coveredWords(target, candidate) == significantWords(target) \cap wordsOf(candidate)

\* the filter with a requirement of 60% in place of 80%
passesCoverageLax(target, candidate) ==
  Cardinality(coveredWords(target, candidate)) * 100
    >= 60 * Cardinality(significantWords(target))

\* Hard requirement: 80%+ coverage
passesCoverage(target, candidate) ==
  Cardinality(coveredWords(target, candidate)) * 100
    >= 80 * Cardinality(significantWords(target))

baseScore(target, candidate, in) ==
  IF ~passesCoverage(target, candidate)
  THEN 0
  ELSE in.matchScore + in.formatScore + in.seederScore + in.sizeScore

InitScore ==
  /\ InitTables(PrimaryRequests)
  /\ NoRanking
  /\ scTarget \in RequestTitles
  /\ scCandidate \in SeqsUpTo(Vocabulary, MaxTitleWords)
  /\ scInputs \in StageInputs
  /\ scScore = 0
  /\ scPc = "input"
  /\ NoLogging
  /\ NoCall
  /\ NoApproval
  /\ NoCache

ScoreCandidate ==
  /\ scPc = "input"
  /\ scScore' = baseScore(scTarget, scCandidate, scInputs)
  /\ scPc' = "scored"
  /\ UNCHANGED <<scTarget, scCandidate, scInputs>>
  /\ UNCHANGED <<queueVars, triggerVars, rankVars, logVars, callVars, approveVars, cacheVars>>

NextScore == ScoreCandidate

SpecScore == InitScore /\ [][NextScore]_vars

(***************************************************************************)
(* SpecLog: a job that logs through an RMABLogger while the job events it  *)
(* fires off are written to the database, or fail to be written.           *)
(***************************************************************************)
LEVEL_PRIORITY ==
  [debug |-> 0, info |-> 1, warn |-> 2, error |-> 3, quiet |-> 4]

LogLevels == {"debug", "info", "warn", "error"}

\* values of LOG_LEVEL: unset, the five levels, one in upper case, an
\* unknown word, and a word that names an inherited property of an object
LogEnvValues ==
  {"unset", "debug", "info", "warn", "error", "quiet", "QUIET", "verbose",
   "constructor"}

toLowerCase(v) == IF v = "QUIET" THEN "quiet" ELSE v

\* envLevel in LEVEL_PRIORITY: own and inherited property names
InLevelPriority(name) == name \in DOMAIN LEVEL_PRIORITY \cup {"constructor"}

getConfiguredLogLevel(env) ==
  IF env # "unset" /\ InLevelPriority(toLowerCase(env))
  THEN toLowerCase(env)
  ELSE "info"

\* levelPriority < CONFIGURED_LOG_PRIORITY; the comparison of a number with
\* a value that is no number is false
belowConfigured(level, configured) ==
  /\ configured \in DOMAIN LEVEL_PRIORITY
  /\ LEVEL_PRIORITY[level] < LEVEL_PRIORITY[configured]

\* every level of a job-aware logger persisted
persistsAnyLevel(jobId, level) == jobId # 0

\* if (this.jobId && level !== 'debug')
persists(jobId, level) == jobId # 0 /\ level # "debug"

\* a rejected create without handler: the rejection ends the process
onRejectedUnhandled(caller) == "aborted"

\* .catch(() => {}): the rejection is swallowed
onRejected(caller) == caller

RemoveAt(seq, i) == SubSeq(seq, 1, i - 1) \o SubSeq(seq, i + 1, Len(seq))

InitLog ==
  /\ InitTables(PrimaryRequests)
  /\ NoRanking
  /\ NoScoring
  /\ NoCall
  /\ NoApproval
  /\ NoCache
  /\ logEnv \in LogEnvValues
  /\ logJobId \in {0, 1}
  /\ logContext = 0
  /\ logLast = "none"
  /\ logConsole = <<>>
  /\ logPending = <<>>
  /\ logEvents = <<>>
  /\ logCalls = 0
  /\ logCaller = "running"

\* child(subContext): a logger of the extended context with the same job id
LogChild ==
  /\ logCaller = "running"
  /\ logContext < MaxChildDepth
  /\ logContext' = logContext + 1
  /\ UNCHANGED <<logEnv, logJobId, logLast, logConsole, logPending, logEvents,
                 logCalls, logCaller>>
  /\ UNCHANGED <<queueVars, triggerVars, rankVars, scoreVars, callVars, approveVars, cacheVars>>

\* log(level, message): returns at once, the event write is not awaited
LogCall(level) ==
  /\ logCaller = "running"
  /\ logCalls < MaxLogCalls
  /\ IF belowConfigured(level, getConfiguredLogLevel(logEnv))
     THEN UNCHANGED <<logConsole, logPending>>
     ELSE /\ logConsole' = Append(logConsole, level)
          /\ logPending' = IF persists(logJobId, level)
                            THEN Append(logPending, level)
                            ELSE logPending
  /\ logCalls' = logCalls + 1
  /\ logLast' = level
  /\ UNCHANGED <<logEnv, logJobId, logContext, logEvents, logCaller>>
  /\ UNCHANGED <<queueVars, triggerVars, rankVars, scoreVars, callVars, approveVars, cacheVars>>

\* prisma.jobEvent.create resolves
EventWritten(i) ==
  /\ i \in 1..Len(logPending)
  /\ logEvents' = Append(logEvents, logPending[i])
  /\ logPending' = RemoveAt(logPending, i)
  /\ UNCHANGED <<logEnv, logJobId, logContext, logLast, logConsole, logCalls, logCaller>>
  /\ UNCHANGED <<queueVars, triggerVars, rankVars, scoreVars, callVars, approveVars, cacheVars>>

\* prisma.jobEvent.create rejects
EventWriteFails(i) ==
  /\ i \in 1..Len(logPending)
  /\ logPending' = RemoveAt(logPending, i)
  /\ logCaller' = onRejected(logCaller)
  /\ UNCHANGED <<logEnv, logJobId, logContext, logLast, logConsole, logEvents, logCalls>>
  /\ UNCHANGED <<queueVars, triggerVars, rankVars, scoreVars, callVars, approveVars, cacheVars>>

NextLog ==
  \/ LogChild
  \/ \E level \in LogLevels : LogCall(level)
  \/ \E i \in 1..MaxLogCalls : EventWritten(i)
  \/ \E i \in 1..MaxLogCalls : EventWriteFails(i)

SpecLog == InitLog /\ [][NextLog]_vars

(***************************************************************************)
(* SpecPath: PathMapper.transform on every path of up to MaxPathLen        *)
(* characters.  A path is a sequence of characters; the names "remote",    *)
(* "local" and "2" stand for characters that are no separators.            *)
(***************************************************************************)
PathChars == {"/", "\\", "remote", "2", "a"}

\* "/remote/a/b", "/remote2/a", "/remote//a/"
ExamplePaths ==
  { <<"/", "remote", "/", "a", "/", "b">>,
    <<"/", "remote", "2", "/", "a">>,
    <<"/", "remote", "/", "/", "a", "/">> }

RemotePaths == {<<>>, <<"/", "remote">>, <<"/", "remote", "/">>}

LocalPaths == {<<>>, <<"/", "local">>, <<"/", "local", "/">>}

PathConfigs == [enabled : BOOLEAN, remotePath : RemotePaths, localPath : LocalPaths]

\* filePath.replace(/\\/g, '/')
replaceBackslashes(filePath) ==
  [i \in 1..Len(filePath) |-> IF filePath[i] = "\\" THEN "/" ELSE filePath[i]]

\* path.normalize on paths without "." and "..": runs of separators collapse
RECURSIVE pathNormalize(_)
pathNormalize(filePath) ==
  IF Len(filePath) <= 1 THEN filePath
  ELSE IF filePath[1] = "/" /\ filePath[2] = "/"
       THEN pathNormalize(Tail(filePath))
       ELSE <<filePath[1]>> \o pathNormalize(Tail(filePath))

\* normalizePath that keeps a trailing slash
normalizePathKeepTrailing(filePath) == pathNormalize(replaceBackslashes(filePath))

normalizePath(filePath) ==
  LET normalized == pathNormalize(replaceBackslashes(filePath)) IN
    IF Len(normalized) > 1 /\ normalized[Len(normalized)] = "/"
    THEN SubSeq(normalized, 1, Len(normalized) - 1)
    ELSE normalized

startsWith(str, prefix) ==
  /\ Len(prefix) <= Len(str)
  /\ SubSeq(str, 1, Len(prefix)) = prefix

substring(str, start) == SubSeq(str, start + 1, Len(str))

\* path.join(a, b): empty segments are skipped, the rest is joined with "/"
\* and normalized
pathJoin(a, b) ==
  IF b = <<>> THEN pathNormalize(a)
  ELSE IF a = <<>> THEN pathNormalize(b)
  ELSE pathNormalize(a \o <<"/">> \o b)

transform(qbittorrentPath, config) ==
  IF ~config.enabled THEN qbittorrentPath
  ELSE IF qbittorrentPath = <<>> \/ config.remotePath = <<>> \/ config.localPath = <<>>
  THEN qbittorrentPath
  ELSE LET normalizedRemote == normalizePath(config.remotePath)
           normalizedLocal == normalizePath(config.localPath)
           normalizedQbPath == normalizePath(qbittorrentPath)
       IN  IF ~startsWith(normalizedQbPath, normalizedRemote)
           THEN qbittorrentPath
           ELSE pathJoin(normalizedLocal,
                         substring(normalizedQbPath, Len(normalizedRemote)))

InitPath ==
  /\ InitTables(PrimaryRequests)
  /\ NoRanking
  /\ NoScoring
  /\ NoLogging
  /\ NoApproval
  /\ NoCache
  /\ callArgs \in [path : SeqsUpTo(PathChars, MaxPathLen) \cup ExamplePaths,
                    config : PathConfigs]
  /\ callResult = 0
  /\ callPc = "called"

PathTransform ==
  /\ callPc = "called"
  /\ callResult' = transform(callArgs.path, callArgs.config)
  /\ callPc' = "returned"
  /\ UNCHANGED callArgs
  /\ UNCHANGED <<queueVars, triggerVars, rankVars, scoreVars, logVars, approveVars, cacheVars>>

NextPath == PathTransform

SpecPath == InitPath /\ [][NextPath]_vars

(***************************************************************************)
(* SpecSeed: the seeder score Math.min(15, Math.log10(seeders + 1) * 6),   *)
(* rounded down to whole points, for every seeder count up to MaxSeeders.  *)
(***************************************************************************)
\* CubeThresholds[k + 1] is the least cube x^3 of a number x with
\* log10(x) * 6 >= k, for k = 0..18: 10^(k/2), rounded up
CubeThresholds ==
  << 1, 4, 10, 32, 100, 317, 1000, 3163, 10000, 31623, 100000, 316228,
     1000000, 3162278, 10000000, 31622777, 100000000, 316227767, 1000000000 >>

\* Math.floor(Math.log10(x) * 6) for 1 <= x <= 1290
floorLog10Times6(x) ==
  LET cube == x * x * x
      reached == {k \in 0..18 : cube >= CubeThresholds[k + 1]}
  IN  CHOOSE k \in reached : \A other \in reached : other <= k

\* the score without its cap
seederScoreUncapped(seeders) == floorLog10Times6(seeders + 1)

seederScore(seeders) ==
  LET points == floorLog10Times6(seeders + 1) IN
    IF points < 15 THEN points ELSE 15

InitSeed ==
  /\ InitTables(PrimaryRequests)
  /\ NoRanking
  /\ NoScoring
  /\ NoLogging
  /\ NoApproval
  /\ NoCache
  /\ callArgs \in 0..MaxSeeders
  /\ callResult = 0
  /\ callPc = "called"

SeederScore ==
  /\ callPc = "called"
  /\ callResult' = seederScore(callArgs)
  /\ callPc' = "returned"
  /\ UNCHANGED callArgs
  /\ UNCHANGED <<queueVars, triggerVars, rankVars, scoreVars, logVars, approveVars, cacheVars>>

NextSeed == SeederScore

SpecSeed == InitSeed /\ [][NextSeed]_vars

(***************************************************************************)
(* SpecApprove: the user approval endpoint, POST with { approve }, called  *)
(* by concurrent administrators.  The handler reads the user, then writes. *)
(***************************************************************************)
Admins == 1..NumAdmins
UserIds == 1..NumUsers

NoApprovalCall == [user |-> 0, approve |-> FALSE, response |-> 0]

\* findUnique returns null: 404
ApproveNotFound(a, u) ==
  /\ apc[a] = "idle"
  /\ IF u \in UserIds THEN users[u] = "deleted" ELSE TRUE
  /\ alocal' = [alocal EXCEPT ![a] = [NoApprovalCall EXCEPT !.response = 404]]
  /\ UNCHANGED <<users, apc>>
  /\ UNCHANGED <<queueVars, triggerVars, rankVars, scoreVars, logVars, callVars, cacheVars>>

\* registrationStatus !== 'pending_approval': 400
ApproveNotPending(a, u) ==
  /\ apc[a] = "idle"
  /\ u \in UserIds
  /\ users[u] \notin {"deleted", "pending_approval"}
  /\ alocal' = [alocal EXCEPT ![a] = [NoApprovalCall EXCEPT !.response = 400]]
  /\ UNCHANGED <<users, apc>>
  /\ UNCHANGED <<queueVars, triggerVars, rankVars, scoreVars, logVars, callVars, cacheVars>>

\* the user was read in pending_approval: the handler goes on to its write
ApproveFound(a, u, approve) ==
  /\ apc[a] = "idle"
  /\ u \in UserIds
  /\ users[u] = "pending_approval"
  /\ apc' = [apc EXCEPT ![a] = "found"]
  /\ alocal' = [alocal EXCEPT ![a] = [user |-> u, approve |-> approve, response |-> 0]]
  /\ UNCHANGED users
  /\ UNCHANGED <<queueVars, triggerVars, rankVars, scoreVars, logVars, callVars, cacheVars>>

\* prisma.user.update({ where: { id }, data: { registrationStatus: 'approved' } });
\* it throws when the row is gone, and the catch block answers 500
ApproveUpdate(a) ==
  /\ apc[a] = "found"
  /\ alocal[a].approve
  /\ LET u == alocal[a].user IN
       IF users[u] = "deleted"
       THEN /\ alocal' = [alocal EXCEPT ![a] = [NoApprovalCall EXCEPT !.response = 500]]
            /\ UNCHANGED users
       ELSE /\ users' = [users EXCEPT ![u] = "approved"]
            /\ alocal' = [alocal EXCEPT ![a] = [NoApprovalCall EXCEPT !.response = 200]]
  /\ apc' = [apc EXCEPT ![a] = "idle"]
  /\ UNCHANGED <<queueVars, triggerVars, rankVars, scoreVars, logVars, callVars, cacheVars>>

\* prisma.user.delete({ where: { id } }); it throws when the row is gone
ApproveDelete(a) ==
  /\ apc[a] = "found"
  /\ ~alocal[a].approve
  /\ LET u == alocal[a].user IN
       IF users[u] = "deleted"
       THEN /\ alocal' = [alocal EXCEPT ![a] = [NoApprovalCall EXCEPT !.response = 500]]
            /\ UNCHANGED users
       ELSE /\ users' = [users EXCEPT ![u] = "deleted"]
            /\ alocal' = [alocal EXCEPT ![a] = [NoApprovalCall EXCEPT !.response = 200]]
  /\ apc' = [apc EXCEPT ![a] = "idle"]
  /\ UNCHANGED <<queueVars, triggerVars, rankVars, scoreVars, logVars, callVars, cacheVars>>

InitApprove ==
  /\ InitTables(PrimaryRequests)
  /\ NoRanking
  /\ NoScoring
  /\ NoLogging
  /\ NoCall
  /\ NoCache
  /\ users \in [UserIds -> {"pending_approval", "approved"}]
  /\ apc = [a \in Admins |-> "idle"]
  /\ alocal = [a \in Admins |-> NoApprovalCall]

NextApprove ==
  \/ \E a \in Admins, u \in 0..NumUsers : ApproveNotFound(a, u)
  \/ \E a \in Admins, u \in UserIds : ApproveNotPending(a, u)
  \/ \E a \in Admins, u \in UserIds, approve \in BOOLEAN : ApproveFound(a, u, approve)
  \/ \E a \in Admins : ApproveUpdate(a)
  \/ \E a \in Admins : ApproveDelete(a)

SpecApprove == InitApprove /\ [][NextApprove]_vars

(***************************************************************************)
(* SpecCache: ThumbnailCacheService.  File names, ASINs and URL paths are  *)
(* sequences of characters; "jpg" and "png" stand for runs of letters.     *)
(* cacheThumbnail is called before and during one call of                  *)
(* cleanupUnusedThumbnails, which can be interleaved at its awaits.        *)
(***************************************************************************)
\* path.extname of a base name: from its last "." on; "" when there is no
\* ".", when the last "." is the first character, or for ".."
extname(base) ==
  LET dots == {i \in 1..Len(base) : base[i] = "."} IN
    IF dots = {} THEN <<>>
    ELSE LET startDot == CHOOSE i \in dots : \A k \in dots : k <= i IN
           IF startDot = 1 THEN <<>>
           ELSE IF base = <<".", ".">> THEN <<>>
           ELSE SubSeq(base, startDot, Len(base))

\* the stem taken up to the first "."
parseNameFirstDot(file) ==
  LET dots == {i \in 2..Len(file) : file[i] = "."} IN
    IF dots = {} THEN file
    ELSE SubSeq(file, 1, (CHOOSE i \in dots : \A k \in dots : i <= k) - 1)

\* path.parse(file).name: the base name without its extension
parseName(file) == SubSeq(file, 1, Len(file) - Len(extname(file)))

\* `${asin}${ext}`, ext: path.extname(urlPath) || '.jpg'
generateFilename(asin, urlPath) ==
  LET ext == extname(urlPath) IN
    asin \o (IF ext = <<>> THEN <<".", "jpg">> ELSE ext)

\* "B0", "B0.1", ".B0"
Asins == {<<"B0">>, <<"B0", ".", "1">>, <<".", "B0">>}

\* base names of the URL paths: "cover.png", "cover", "cover.", "a.b.jpg"
UrlPaths ==
  { <<"cover", ".", "png">>, <<"cover">>, <<"cover", ".">>,
    <<"a", ".", "b", ".", "jpg">> }

\* files that are in the directory without having been cached: "B1.png",
\* ".gitkeep", "B0.1"
StrayFiles == {<<"B1", ".", "png">>, <<".", "gitkeep">>, <<"B0", ".", "1">>}

\* cacheThumbnail(asin, url): the file is written unless it exists; a failed
\* download or a content type that is no image leaves the directory alone
CacheThumbnail(asin, urlPath, downloaded) ==
  /\ cleanPc \in {"idle", "listed"}
  /\ LET filename == generateFilename(asin, urlPath) IN
       /\ filename \notin cacheDir
       /\ downloaded
       /\ Cardinality(cacheDir) < MaxFiles
       /\ cacheDir' = cacheDir \cup {filename}
       /\ thumbCached' = thumbCached \cup {<<asin, filename>>}
  /\ UNCHANGED <<cleanPc, cleanActive, cleanListed, cleanFiles, cleanDeleted,
                 deletedCount, cleanResult>>
  /\ UNCHANGED <<queueVars, triggerVars, rankVars, scoreVars, logVars, callVars, approveVars>>

\* ensureCacheDir, const files = await fs.readdir(CACHE_DIR); let deletedCount = 0
CleanupList(activeAsins) ==
  /\ cleanPc = "idle"
  /\ cleanPc' = "listed"
  /\ cleanActive' = activeAsins
  /\ cleanListed' = cacheDir
  /\ cleanFiles' = cacheDir
  /\ cleanDeleted' = {}
  /\ deletedCount' = 0
  /\ cleanResult' = 0
  /\ UNCHANGED <<cacheDir, thumbCached>>
  /\ UNCHANGED <<queueVars, triggerVars, rankVars, scoreVars, logVars, callVars, approveVars>>

\* one round of the loop, for a file whose stem is in activeAsins
CleanupKeep(file) ==
  /\ cleanPc = "listed"
  /\ file \in cleanFiles
  /\ parseName(file) \in cleanActive
  /\ cleanFiles' = cleanFiles \ {file}
  /\ UNCHANGED <<cacheDir, thumbCached, cleanPc, cleanActive, cleanListed,
                 cleanDeleted, deletedCount, cleanResult>>
  /\ UNCHANGED <<queueVars, triggerVars, rankVars, scoreVars, logVars, callVars, approveVars>>

\* one round of the loop, for a file whose stem is not in activeAsins:
\* await fs.unlink(filePath); deletedCount++
CleanupUnlink(file) ==
  /\ cleanPc = "listed"
  /\ file \in cleanFiles
  /\ parseName(file) \notin cleanActive
  /\ cacheDir' = cacheDir \ {file}
  /\ thumbCached' = {c \in thumbCached : c[2] # file}
  /\ cleanFiles' = cleanFiles \ {file}
  /\ cleanDeleted' = cleanDeleted \cup {file}
  /\ deletedCount' = deletedCount + 1
  /\ UNCHANGED <<cleanPc, cleanActive, cleanListed, cleanResult>>
  /\ UNCHANGED <<queueVars, triggerVars, rankVars, scoreVars, logVars, callVars, approveVars>>

\* fs.unlink throws: the catch block logs the error and returns 0
CleanupUnlinkFails(file) ==
  /\ cleanPc = "listed"
  /\ file \in cleanFiles
  /\ parseName(file) \notin cleanActive
  /\ cleanPc' = "failed"
  /\ cleanResult' = 0
  /\ cleanFiles' = {}
  /\ UNCHANGED <<cacheDir, thumbCached, cleanActive, cleanListed, cleanDeleted, deletedCount>>
  /\ UNCHANGED <<queueVars, triggerVars, rankVars, scoreVars, logVars, callVars, approveVars>>

\* the loop is over: return deletedCount
CleanupReturn ==
  /\ cleanPc = "listed"
  /\ cleanFiles = {}
  /\ cleanPc' = "done"
  /\ cleanResult' = deletedCount
  /\ UNCHANGED <<cacheDir, thumbCached, cleanActive, cleanListed, cleanFiles,
                 cleanDeleted, deletedCount>>
  /\ UNCHANGED <<queueVars, triggerVars, rankVars, scoreVars, logVars, callVars, approveVars>>

InitCache ==
  /\ InitTables(PrimaryRequests)
  /\ NoRanking
  /\ NoScoring
  /\ NoLogging
  /\ NoCall
  /\ NoApproval
  /\ cacheDir \in {files \in SUBSET StrayFiles : Cardinality(files) <= MaxFiles}
  /\ thumbCached = {}
  /\ cleanPc = "idle"
  /\ cleanActive = {}
  /\ cleanListed = {}
  /\ cleanFiles = {}
  /\ cleanDeleted = {}
  /\ deletedCount = 0
  /\ cleanResult = 0

NextCache ==
  \/ \E asin \in Asins, urlPath \in UrlPaths, downloaded \in BOOLEAN :
       CacheThumbnail(asin, urlPath, downloaded)
  \/ \E activeAsins \in SUBSET Asins : CleanupList(activeAsins)
  \/ \E file \in cleanFiles : CleanupKeep(file)
  \/ \E file \in cleanFiles : CleanupUnlink(file)
  \/ \E file \in cleanFiles : CleanupUnlinkFails(file)
  \/ CleanupReturn

SpecCache == InitCache /\ [][NextCache]_vars

(***************************************************************************)
(* Properties.                                                             *)
(***************************************************************************)
Holders(j) == {w \in Workers : wjob[w] = j}

\* C1: the claim is exclusive: a job is held by exactly one worker while it
\* is running and by none otherwise, so no job is ever running on two
\* workers and of the workers racing for one queued job one obtains it.
C1_ExclusiveClaim ==
  \A j \in JobIds :
    Cardinality(Holders(j)) = IF jobs[j].status = "running" THEN 1 ELSE 0

\* one worker holds the only search job, the other found nothing to claim
C1_Witness ==
  \E w1, w2 \in Workers :
    /\ w1 # w2
    /\ wjob[w1] # 0
    /\ jobs[wjob[w1]].status = "running"
    /\ wpc[w2] = "idle"
    /\ \A j \in JobIds : ~Claimable(jobs[j])

\* C2: a job whose processor threw maxAttempts times is failed with
\* attempts = maxAttempts, and a job in that state keeps its status and its
\* attempts in every later step.
C2_FailedIsPermanent ==
  /\ [](\A j \in JobIds :
          failures[j] = jobs[j].maxAttempts /\ Holders(j) = {}
            => jobs[j].status = "failed" /\ jobs[j].attempts = jobs[j].maxAttempts)
  /\ [][\A j \in JobIds :
          jobs[j].status = "failed" /\ jobs[j].attempts = jobs[j].maxAttempts
            => jobs'[j].status = "failed" /\ jobs'[j].attempts = jobs[j].attempts]_vars

C2_Witness ==
  \E j \in JobIds :
    /\ jobs[j].status = "failed"
    /\ jobs[j].maxAttempts = MaxAttemptsBound
    /\ failures[j] = jobs[j].maxAttempts
    /\ \E w \in Workers : wpc[w] = "idle"

\* C3: in every reachable state every job has attempts <= maxAttempts.
C3_AttemptsBounded ==
  \A j \in JobIds : jobs[j].attempts <= jobs[j].maxAttempts

C3_Witness ==
  \E j \in JobIds :
    jobs[j].attempts = jobs[j].maxAttempts /\ jobs[j].errorMessage = MsgServiceError

\* C4: fail on a running job adds exactly one to attempts; below maxAttempts
\* the job is queued again, otherwise it is failed and the error message is
\* stored; every other job is unchanged.
C4_FailStep ==
  [][\A w \in Workers :
       wpc[w] = "threw" /\ wpc'[w] = "idle" =>
         LET j == wjob[w] IN
           /\ jobs[j].status = "running"
           /\ jobs'[j].attempts = jobs[j].attempts + 1
           /\ IF jobs'[j].attempts < jobs[j].maxAttempts
              THEN jobs'[j].status = "queued"
              ELSE jobs'[j].status = "failed" /\ jobs'[j].errorMessage = werr[w]
           /\ \A k \in JobIds : k # j => jobs'[k] = jobs[k]]_vars

\* a job that failed once and was queued again
C4_Witness ==
  \E j \in JobIds :
    jobs[j].status = "queued" /\ jobs[j].attempts = 1 /\ failures[j] = 1

NoCandidateMessages == {MsgNoTorrents, MsgNoQuality, MsgNoEbook, MsgNoLinks}

\* C5: a search that finds no candidate leaves the Request in
\* awaiting_search with an error message and not in failed, the processor
\* returns, and the job is completed with its attempts unchanged.
C5_NoCandidateIsNoFailure ==
  [][\A w \in Workers :
       LET j == wjob[w] IN
         /\ wpc[w] = "searching" /\ wpc'[w] = "returned" /\ wres'[w] = "no_candidate"
              => /\ requests'[jobs[j].requestId].status = "awaiting_search"
                 /\ requests'[jobs[j].requestId].errorMessage \in NoCandidateMessages
                 /\ failures'[j] = failures[j]
         /\ wpc[w] = "returned" /\ wres[w] = "no_candidate" /\ wpc'[w] = "idle"
              => /\ jobs'[j].status = "completed"
                 /\ jobs'[j].result = "no_candidate"
                 /\ jobs'[j].attempts = jobs[j].attempts
                 /\ requests' = requests]_vars

C5_Witness ==
  \E j \in JobIds :
    /\ jobs[j].status = "completed"
    /\ jobs[j].result = "no_candidate"
    /\ jobs[j].attempts = 0
    /\ requests[jobs[j].requestId].status = "awaiting_search"
    /\ requests[jobs[j].requestId].errorMessage \in NoCandidateMessages

(***************************************************************************)
(* The transition table of the Request state machine.                      *)
(***************************************************************************)
TerminalStatuses == {"downloaded", "available", "failed"}

Edge(type, from, to) ==
  \/ from = "pending" /\ to = "searching"
  \/ from = "searching" /\ to \in {"awaiting_search", "downloading"}
  \/ from = "awaiting_search" /\ to = "searching"
  \/ from = "downloading" /\ to = "processing"
  \/ from = "processing" /\ to \in {"downloaded", "available"}
  \/ from \notin TerminalStatuses /\ to = "failed"
  \/ /\ type = "ebook"
     /\ from \in {"failed", "awaiting_search"}
     /\ to \in {"pending", "searching"}

\* C6: every change of a Request's status follows an edge of the transition
\* table, and a Request enters searching only from pending or
\* awaiting_search.
C6_TransitionsFollowTable ==
  [][\A r \in RequestIds :
       requests'[r].status # requests[r].status =>
         /\ Edge(requests[r].type, requests[r].status, requests'[r].status)
         /\ requests'[r].status = "searching"
              => requests[r].status \in {"pending", "awaiting_search"}]_vars

\* C7: while a job whose search call threw still has attempts left, its
\* Request is not failed.
C7_FailureSurfacedOnlyWhenExhausted ==
  \A w \in Workers :
    /\ wpc[w] = "threw"
    /\ werr[w] = MsgServiceError
    /\ jobs[wjob[w]].attempts + 1 < jobs[wjob[w]].maxAttempts
    => requests[jobs[wjob[w]].requestId].status # "failed"

\* C8: a configuration error gives the Request a descriptive error message,
\* does not add to the job's attempts and does not queue the job again.
C8_ConfigErrorNotCounted ==
  [][\A w \in Workers :
       wpc[w] = "threw" /\ werr[w] \in ConfigErrors =>
         LET j == wjob[w] IN
           /\ requests[jobs[j].requestId].errorMessage \in ConfigErrors
           /\ wpc'[w] = "idle"
                => /\ jobs'[j].attempts = jobs[j].attempts
                   /\ jobs'[j].status # "queued"]_vars

InFiltered(i) ==
  \E k \in 1..Len(filteredResults) : filteredResults[k].guid = i

FinalOf(c) == c.score + c.bonusPoints

\* C9: after a ranking pass, a candidate of the search output is among the
\* qualifying results exactly when its base score is at least 50 and its
\* base score plus bonus is at least 50.
C9_DualThreshold ==
  rankPc \in {"no_quality", "selected"} =>
    \A i \in 1..Len(searchResults) :
      InFiltered(i) <=>
        searchResults[i].score >= 50 /\ FinalOf(searchResults[i]) >= 50

\* a pass that drops a candidate of base 80 with bonus -40 and one of base
\* 40 with bonus 10, and keeps another
C9_Witness ==
  /\ rankPc = "selected"
  /\ \E i, k \in 1..Len(searchResults) :
       /\ searchResults[i] = [score |-> 80, bonusPoints |-> -40]
       /\ searchResults[k] = [score |-> 40, bonusPoints |-> 10]
       /\ ~InFiltered(i)
       /\ ~InFiltered(k)

\* C10: the selected candidate qualifies, and no qualifying candidate of the
\* search output has a higher final score, or the same final score and a
\* higher base score, or the same scores and an earlier position.
C10_BestIsHighestRanked ==
  rankPc = "selected" =>
    /\ bestResult.guid \in 1..Len(searchResults)
    /\ searchResults[bestResult.guid].score >= 50
    /\ FinalOf(searchResults[bestResult.guid]) >= 50
    /\ \A i \in 1..Len(searchResults) :
         searchResults[i].score >= 50 /\ FinalOf(searchResults[i]) >= 50 =>
           LET b == searchResults[bestResult.guid]
               c == searchResults[i]
           IN \/ FinalOf(c) < FinalOf(b)
              \/ FinalOf(c) = FinalOf(b) /\ c.score < b.score
              \/ FinalOf(c) = FinalOf(b) /\ c.score = b.score /\ bestResult.guid <= i

\* a selection decided by each tie-break: equal final scores with different
\* base scores, and two candidates with the same scores
C10_Witness ==
  /\ rankPc = "selected"
  /\ Len(searchResults) = 3
  /\ \E i \in 1..3 :
       /\ i # bestResult.guid
       /\ FinalOf(searchResults[i]) = bestResult.finalScore
       /\ searchResults[i].score < bestResult.score
  /\ \E k \in 1..3 :
       /\ k > bestResult.guid
       /\ searchResults[k] = searchResults[bestResult.guid]

\* C11: a candidate title that holds fewer than 80% of the significant words
\* of the requested title (stop words removed) gets the base score 0 whatever
\* the points of its other stages are, and so does not qualify under any
\* bonus; "The Wild Robot" against "The Wild Robot on the Island" covers 2
\* of 3 words and scores 0.
C11_CoverageGate ==
  scPc = "scored" =>
    LET significant == {scTarget[i] : i \in 1..Len(scTarget)} \ StopWords
        found == {w \in significant : \E i \in 1..Len(scCandidate) : scCandidate[i] = w}
    IN  Cardinality(found) * 5 < Cardinality(significant) * 4 =>
          /\ scScore = 0
          /\ \A bonus \in RankBonuses \cup {60} :
                ~Qualifies([score |-> scScore, bonusPoints |-> bonus,
                            finalScore |-> scScore + bonus])

C11_Witness ==
  /\ scPc = "scored"
  /\ scTarget = <<"the", "wild", "robot", "on", "the", "island">>
  /\ scCandidate = <<"the", "wild", "robot">>
  /\ scInputs.matchScore = 50
  /\ Cardinality(coveredWords(scTarget, scCandidate)) = 2
  /\ Cardinality(significantWords(scTarget)) = 3
  /\ scScore = 0

\* C12: a fetch-ebook call that found a non-deleted ebook request in status
\* failed or awaiting_search resets that request to pending, progress 0 and
\* no error message, enqueues one ebook search job for it, and creates no
\* request and changes no other one.
C12_RetryResetsSameRequest ==
  [][\A t \in Triggers :
       ( /\ tpc[t] = "found"
         /\ tpc'[t] = "idle"
         /\ tlocal[t].existing # 0
         /\ tlocal[t].existingStatus \in {"failed", "awaiting_search"} )
       => LET e == tlocal[t].existing IN
            /\ requests'[e].status = "pending"
            /\ requests'[e].progress = 0
            /\ requests'[e].errorMessage = ""
            /\ Len(requests') = Len(requests)
            /\ \A r \in RequestIds \ {e} : requests'[r] = requests[r]
            /\ Len(jobs') = Len(jobs) + 1
            /\ \A j \in JobIds : jobs'[j] = jobs[j]
            /\ jobs'[Len(jobs')].type = "search_ebook"
            /\ jobs'[Len(jobs')].requestId = e
            /\ jobs'[Len(jobs')].status = "queued"
    ]_vars

\* a request that had failed at progress 40 is pending again with its search
\* queued, and the table has not grown
C12_Witness ==
  /\ Len(requests) = 3
  /\ requests[3].type = "ebook"
  /\ requests[3].status = "pending"
  /\ requests[3].progress = 0
  /\ requests[3].errorMessage = ""
  /\ requests[3].searchAttempts = 1
  /\ \E j \in JobIds : jobs[j].type = "search_ebook" /\ jobs[j].requestId = 3
  /\ \E t \in Triggers : tlocal[t].response = 200

SidecarParentCompleted(reqs, r) ==
  reqs[r].type = "ebook" =>
    /\ reqs[r].parentRequestId \in 1..Len(reqs)
    /\ reqs[reqs[r].parentRequestId].status \in {"downloaded", "available"}

\* C13: every ebook request names as its parent a request that exists and
\* is downloaded or available, and a step that creates an ebook request
\* finds the parent in such a status before the creation.
C13_SidecarParentCompleted ==
  /\ [](\A r \in RequestIds : SidecarParentCompleted(requests, r))
  /\ [][\A r \in (Len(requests) + 1)..Len(requests') :
          requests'[r].type = "ebook" =>
            /\ requests'[r].parentRequestId \in RequestIds
            /\ requests[requests'[r].parentRequestId].status
                 \in {"downloaded", "available"}
       ]_vars

\* an ebook request that the endpoint created
C13_Witness ==
  \E r \in RequestIds :
    /\ requests[r].type = "ebook"
    /\ requests[r].searchAttempts = 0
    /\ requests[r].parentRequestId = 1
    /\ requests[1].status = "downloaded"
    /\ \E j \in JobIds : jobs[j].requestId = r

\* C14: whatever the interleaving of fetch-ebook calls for one parent, at
\* most one non-deleted ebook request exists for it.
C14_OneSidecarPerParent ==
  \A p \in RequestIds :
    Cardinality({r \in RequestIds : /\ requests[r].type = "ebook"
                                    /\ requests[r].parentRequestId = p
                                    /\ requests[r].deletedAt = FALSE}) <= 1

\* C15: searchAttempts counts the entries into searching: a step raises it
\* by one exactly when it takes the request from another status into
\* searching, and a new request starts at 0 outside searching.
C15_AttemptsCountEntries ==
  [][/\ \A r \in RequestIds :
          requests'[r].searchAttempts =
            requests[r].searchAttempts
              + (IF requests[r].status # "searching" /\ requests'[r].status = "searching"
                 THEN 1 ELSE 0)
     /\ \A r \in (Len(requests) + 1)..Len(requests') :
          requests'[r].searchAttempts = 0 /\ requests'[r].status # "searching"
    ]_vars

\* the download locations the search found for the candidate of history
\* record h: those the search processor still holds, or those it has stored
CandidateLinks(h) ==
  IF \E v \in Workers : wpc[v] = "enqueued" /\ wlocal[v].historyId = h
  THEN (CHOOSE links \in LinkLists :
          \E v \in Workers : /\ wpc[v] = "enqueued"
                              /\ wlocal[v].historyId = h
                              /\ wlocal[v].slowLinks = links)
  ELSE downloadHistory[h].torrentUrl

\* C16: when a download location fails, the download goes on with the next
\* location known for the candidate, and it gives up (the job is failed)
\* only when the location that failed was the last of them.
C16_FallbackChain ==
  [][\A w \in Workers :
       ( /\ wpc[w] = "downloading"
         /\ \/ wpc'[w] = "threw"
            \/ wlocal'[w].tried = wlocal[w].tried + 1 )
       => LET links == CandidateLinks(jobs[wjob[w]].payload.historyId) IN
            (wpc'[w] = "threw") <=> (wlocal[w].tried + 1 = Len(links))
    ]_vars

\* C17: a step of a search job whose request is soft-deleted has no side
\* effect: the request keeps its status, searchAttempts and errorMessage, no
\* DownloadHistory record is created and no job is enqueued.
C17_DeletedRequestUntouched ==
  [][\A w \in Workers :
       ( /\ wjob[w] # 0
         /\ wpc'[w] # wpc[w]
         /\ jobs[wjob[w]].type \in SearchJobTypes
         /\ requests[jobs[wjob[w]].requestId].deletedAt )
       => LET r == jobs[wjob[w]].requestId IN
            /\ requests'[r].status = requests[r].status
            /\ requests'[r].searchAttempts = requests[r].searchAttempts
            /\ requests'[r].errorMessage = requests[r].errorMessage
            /\ Len(downloadHistory') = Len(downloadHistory)
            /\ Len(jobs') = Len(jobs)
    ]_vars

\* C18: the errorMessage of a Request is empty or one of the fixed messages
\* of the processors, never the message text of an exception of the search
\* service, the database or the configuration parser.
C18_NoRawExceptionText ==
  \A r \in RequestIds :
    requests[r].errorMessage \in {""} \cup NoCandidateMessages \cup ConfigErrors

C20_EventWriteNeverAlters ==
  /\ [](logCaller \in {"off", "running"})
  /\ [][logCalls' # logCalls => logCalls' = logCalls + 1 /\ logCaller' = "running"]_vars
  /\ [][Len(logPending') < Len(logPending) =>
          /\ logCaller' = logCaller
          /\ logCalls' = logCalls
          /\ logConsole' = logConsole
          /\ UNCHANGED queueVars
       ]_vars

\* a job-aware logger whose two event writes both failed: both calls
\* returned, nothing was persisted, the job runs on
C20_Witness ==
  /\ logJobId = 1
  /\ logCalls = 2
  /\ logConsole = <<"info", "error">>
  /\ logPending = <<>>
  /\ logEvents = <<>>
  /\ logCaller = "running"

\* C21: with LOG_LEVEL=quiet nothing is written to the console, and every
\* info, warn and error call of a logger with a job id still fires off the
\* write of a job event.
C21_QuietStillPersists ==
  /\ [](logEnv \in {"quiet", "QUIET"} => logConsole = <<>>)
  /\ [][( /\ logEnv \in {"quiet", "QUIET"}
          /\ logCalls' = logCalls + 1
          /\ logJobId # 0
          /\ logLast' \in {"info", "warn", "error"} )
        => logPending' = Append(logPending, logLast')
       ]_vars

\* C22: a debug call creates no job event, under every LOG_LEVEL, with or
\* without job id, from a logger or a child logger; and a logger without
\* job id creates no job event at any level.
C22_DebugNeverPersisted ==
  /\ [](\A i \in 1..Len(logPending) : logPending[i] # "debug")
  /\ [](\A i \in 1..Len(logEvents) : logEvents[i] # "debug")
  /\ [](logJobId = 0 => logPending = <<>> /\ logEvents = <<>>)
  /\ [][(logCalls' = logCalls + 1 /\ logLast' = "debug")
         => logPending' = logPending /\ logEvents' = logEvents
       ]_vars

\* a child of a job-aware logger under LOG_LEVEL=debug has written a debug
\* and an info message to the console; only the info message was persisted
C22_Witness ==
  /\ logEnv = "debug"
  /\ logJobId = 1
  /\ logContext = 1
  /\ logConsole = <<"info", "debug">>
  /\ logLast = "debug"
  /\ logPending = <<>>
  /\ logEvents = <<"info">>

\* the level LOG_LEVEL stands for: the level it names in any case of
\* letters, and info when it is unset or names no level
TableLevel(env) ==
  CASE env = "QUIET" -> "quiet"
    [] env \in {"debug", "info", "warn", "error", "quiet"} -> env
    [] OTHER -> "info"

Severity(level) ==
  CASE level = "debug" -> 0
    [] level = "info" -> 1
    [] level = "warn" -> 2
    [] level = "error" -> 3
    [] level = "quiet" -> 4

\* C23: a log call of level L writes to the console if and only if L is at
\* least as severe as the level LOG_LEVEL stands for, in the order
\* debug < info < warn < error < quiet; unset or unrecognised is info.
C23_ConsoleFollowsTable ==
  [][logCalls' = logCalls + 1 =>
       IF Severity(logLast') >= Severity(TableLevel(logEnv))
       THEN logConsole' = Append(logConsole, logLast')
       ELSE logConsole' = logConsole
    ]_vars

IsPrefixOf(prefix, str) ==
  /\ Len(prefix) <= Len(str)
  /\ \A i \in 1..Len(prefix) : str[i] = prefix[i]

IsSeparator(c) == c \in {"/", "\\"}

\* the positions of a path that its clean form keeps: no separator that
\* follows a separator, and no final separator unless it is the only one
KeptPositions(path) ==
  LET first == {i \in 1..Len(path) :
                  ~(IsSeparator(path[i]) /\ i > 1 /\ IsSeparator(path[i - 1]))}
      last == CHOOSE i \in first : \A k \in first : k <= i
  IN  IF Cardinality(first) > 1 /\ IsSeparator(path[last])
      THEN first \ {last} ELSE first

\* the clean form of a non-empty path: "/" for every separator kept
Clean(path) ==
  LET kept == KeptPositions(path)
      pos(n) == CHOOSE i \in kept : Cardinality({k \in kept : k <= i}) = n
  IN  [n \in 1..Cardinality(kept) |->
         IF IsSeparator(path[pos(n)]) THEN "/" ELSE path[pos(n)]]

DownloadJobTypes == {"download_torrent", "start_direct_download"}

\* C25: a search job that selected a candidate leaves the Request in
\* downloading when it completes, and a Request is never in searching while
\* a download job of it is queued or running.
C25_SelectedIsDownloading ==
  /\ [](\A j \in JobIds :
          (jobs[j].type \in DownloadJobTypes /\ jobs[j].status \in {"queued", "running"})
            => requests[jobs[j].requestId].status # "searching")
  /\ [][\A j \in JobIds :
          ( /\ jobs[j].type \in SearchJobTypes
            /\ jobs[j].status = "running"
            /\ jobs'[j].status = "completed"
            /\ jobs'[j].result = "selected" )
          => requests'[jobs[j].requestId].status = "downloading"
       ]_vars

\* C26: the seeder score is 0 for no seeder, 6 for 9 seeders and 15 for 999,
\* never exceeds 15, and no smaller seeder count has a larger score.
C26_SeedScore ==
  callPc = "returned" =>
    /\ callResult >= 0
    /\ callResult <= 15
    /\ callArgs = 0 => callResult = 0
    /\ callArgs = 9 => callResult = 6
    /\ callArgs = 999 => callResult = 15
    /\ \A fewer \in 0..callArgs : seederScore(fewer) <= callResult

C26_Witness ==
  /\ callPc = "returned"
  /\ callArgs = 999
  /\ callResult = 15
  /\ seederScore(9) = 6
  /\ seederScore(0) = 0

\* C27: processSearchIndexers adds a download job exactly when a search
\* result has a base score and a final score of at least 50: then one job,
\* for its request and for a qualifying result that no other qualifying
\* result outranks; on every other way out of the processor, the thrown
\* exceptions included, the job table is unchanged.
C27_EnqueueIffQualifies ==
  [][\A w \in Workers :
       (InIndexers(w) /\ wpc'[w] # "searching") =>
         LET r == jobs[wjob[w]].requestId
             added == Len(jobs') - Len(jobs)
             new == jobs'[Len(jobs')]
         IN
           /\ added \in {0, 1}
           /\ SubSeq(jobs', 1, Len(jobs)) = jobs
           /\ wpc'[w] = "threw" => added = 0
           /\ IndexersNoResults(w) => added = 0
           /\ \A results \in ResultLists \ {<<>>} :
                (IndexersSelect(w, results) \/ IndexersBelowThreshold(w, results)) =>
                  LET ranked == rankTorrents(results)
                      qualifying == {i \in 1..Len(ranked) :
                                       ranked[i].score >= 50 /\ ranked[i].finalScore >= 50}
                  IN IF qualifying = {} THEN added = 0
                     ELSE /\ added = 1
                          /\ new.type = "download_torrent"
                          /\ new.status = "queued"
                          /\ new.requestId = r
                          /\ \E i \in qualifying :
                               /\ new.payload = ranked[i]
                               /\ \A other \in qualifying :
                                    ranked[other].finalScore <= ranked[i].finalScore
    ]_vars

C27_Witness ==
  \E w \in Workers :
    /\ wpc[w] = "returned"
    /\ wres[w] = "selected"
    /\ jobs[wjob[w]].type = "search_indexers"
    /\ Len(jobs) = 2
    /\ jobs[2].type = "download_torrent"
    /\ jobs[2].payload.score = 60
    /\ jobs[2].payload.guid = 2

\* C28: processSearchEbook adds a DownloadHistory record and a
\* start_direct_download job only when a lookup found a content handle and
\* the handle has at least one download link; when no handle is found or
\* there is no link it adds neither, leaves the Request in awaiting_search
\* and returns instead of throwing.
C28_EbookEnqueueOnlyWithLinks ==
  [][\A w \in Workers :
       (InEbook(w) /\ wpc'[w] # "searching") =>
         LET r == jobs[wjob[w]].requestId
             addedJobs == Len(jobs') - Len(jobs)
             addedHistory == Len(downloadHistory') - Len(downloadHistory)
         IN
           /\ SubSeq(jobs', 1, Len(jobs)) = jobs
           /\ SubSeq(downloadHistory', 1, Len(downloadHistory)) = downloadHistory
           /\ (addedJobs # 0 \/ addedHistory # 0) =>
                /\ addedJobs = 1
                /\ addedHistory = 1
                /\ jobs'[Len(jobs')].type = "start_direct_download"
                /\ jobs'[Len(jobs')].requestId = r
                /\ downloadHistory'[Len(downloadHistory')].requestId = r
                /\ \E hasAsin, asinHit, titleHit \in BOOLEAN, links \in LinkLists :
                     /\ (hasAsin /\ asinHit) \/ titleHit
                     /\ Len(links) >= 1
                     /\ EbookEnqueueDownload(w, hasAsin, asinHit, titleHit, links)
           /\ \A hasAsin, asinHit, titleHit \in BOOLEAN, links \in LinkLists :
                LET handle == (hasAsin /\ asinHit) \/ titleHit IN
                  /\ EbookEnqueueDownload(w, hasAsin, asinHit, titleHit, links) =>
                       handle /\ Len(links) >= 1
                  /\ ( \/ EbookNotFound(w, hasAsin, asinHit, titleHit)
                       \/ EbookNoLinks(w, hasAsin, asinHit, titleHit) ) =>
                       /\ addedJobs = 0
                       /\ addedHistory = 0
                       /\ requests'[r].status = "awaiting_search"
                       /\ wpc'[w] = "returned"
                       /\ werr'[w] = werr[w]
                       /\ EbookNotFound(w, hasAsin, asinHit, titleHit) <=> ~handle
    ]_vars

C28_Witness ==
  \E w \in Workers :
    /\ wpc[w] = "returned"
    /\ wres[w] = "no_candidate"
    /\ jobs[wjob[w]].type = "search_ebook"
    /\ requests[jobs[wjob[w]].requestId].status = "awaiting_search"
    /\ requests[jobs[wjob[w]].requestId].errorMessage = MsgNoLinks
    /\ Len(jobs) = 1
    /\ downloadHistory = <<>>

\* C29: the ASIN lookup is the first call whenever the audiobook has an
\* ASIN, the title lookup is called only when there is no ASIN or the ASIN
\* lookup found nothing, and the DownloadHistory record has the score 100
\* exactly when the handle came from the ASIN lookup and 80 otherwise.
C29_AsinFirstThenTitle ==
  [][\A w \in Workers, hasAsin, asinHit, titleHit \in BOOLEAN :
       LET search == ebookSearch(hasAsin, asinHit, titleHit)
           called == {search.lookups[i] : i \in 1..Len(search.lookups)}
           fromAsin == hasAsin /\ asinHit
       IN
         /\ ( \/ EbookNotFound(w, hasAsin, asinHit, titleHit)
              \/ EbookNoLinks(w, hasAsin, asinHit, titleHit)
              \/ \E links \in LinkLists :
                   EbookEnqueueDownload(w, hasAsin, asinHit, titleHit, links) ) =>
              /\ hasAsin <=> (search.lookups[1] = "asin")
              /\ ("title" \in called) <=> (~hasAsin \/ ~asinHit)
              /\ ("asin" \in called) <=> hasAsin
              /\ Len(search.lookups) = Cardinality(called)
         /\ (\E links \in LinkLists :
               EbookEnqueueDownload(w, hasAsin, asinHit, titleHit, links)) =>
              LET record == downloadHistory'[Len(downloadHistory')] IN
                /\ (record.qualityScore = 100) <=> fromAsin
                /\ ~fromAsin => record.qualityScore = 80
    ]_vars

C29_Witness ==
  /\ \E h \in 1..Len(downloadHistory) : downloadHistory[h].qualityScore = 100
  /\ \E w \in Workers : wpc[w] = "enqueued" /\ wlocal[w].searchMethod = "asin"

NonRetryableStatuses ==
  {"pending", "searching", "downloading", "processing", "downloaded"}

C31_LinksStoredBeforeClaim ==
  \A j \in JobIds :
    (jobs[j].type = "start_direct_download" /\ jobs[j].status = "running")
      => downloadHistory[jobs[j].payload.historyId].torrentUrl # <<>>

\* C32: a Request has at most one DownloadHistory record with selected set,
\* and every DownloadHistory record with downloadStatus queued is the record
\* of an enqueued start_direct_download job.
C32_OneSelectedRecord ==
  /\ \A r \in RequestIds :
       Cardinality({h \in 1..Len(downloadHistory) :
                      downloadHistory[h].requestId = r /\ downloadHistory[h].selected}) <= 1
  /\ \A h \in 1..Len(downloadHistory) :
       downloadHistory[h].downloadStatus = "queued" =>
         \E j \in JobIds : /\ jobs[j].type = "start_direct_download"
                           /\ jobs[j].payload.historyId = h

TerminalJobStatuses == {"completed", "failed"}

\* C33: with workers that keep running and processors that return or throw,
\* every job that is enqueued is eventually completed or failed for good.
C33_EveryJobTerminates ==
  \A j \in 1..(2 * MaxAttemptsBound) :
    (j \in JobIds) ~> (j \in JobIds /\ jobs[j].status \in TerminalJobStatuses)

C33_Witness ==
  /\ Len(jobs) = 2
  /\ jobs[1].type = "search_ebook"
  /\ jobs[1].status = "completed"
  /\ jobs[1].attempts = 1
  /\ jobs[2].type = "start_direct_download"
  /\ jobs[2].status = "failed"
  /\ jobs[2].attempts = jobs[2].maxAttempts

\* C34: a job changes status only from queued to running in a claim, from
\* running to completed in the complete of its holder, and from running to
\* queued or failed in the fail of its holder; complete and fail act on a
\* running job only, completed and failed jobs keep their status, and
\* completedAt is set exactly on the completed jobs.
C34_JobStatusTransitions ==
  /\ [](\A j \in JobIds : jobs[j].completedAt <=> (jobs[j].status = "completed"))
  /\ [][\A j \in JobIds :
          jobs'[j].status # jobs[j].status =>
            \/ /\ jobs[j].status = "queued"
               /\ jobs'[j].status = "running"
               /\ \E w \in Workers : claimNext(w, j) \/ claimDownload(w, j)
            \/ /\ jobs[j].status = "running"
               /\ jobs'[j].status = "completed"
               /\ \E w \in Workers : wjob[w] = j /\ CompleteJob(w)
            \/ /\ jobs[j].status = "running"
               /\ jobs'[j].status \in {"queued", "failed"}
               /\ \E w \in Workers : wjob[w] = j /\ FailJob(w)
       ]_vars
  /\ [][\A w \in Workers :
          (CompleteJob(w) \/ FailJob(w)) =>
            /\ wjob[w] \in JobIds
            /\ jobs[wjob[w]].status = "running"
            /\ \A j \in JobIds \ {wjob[w]} : jobs'[j] = jobs[j]
       ]_vars

C34_Witness ==
  /\ Len(jobs) = 2
  /\ jobs[1].status = "completed"
  /\ jobs[1].completedAt
  /\ jobs[2].status = "queued"
  /\ jobs[2].attempts = 1
  /\ ~jobs[2].completedAt

\* C35: a Request with a non-empty errorMessage is in awaiting_search or in
\* failed: in pending, searching and downloading the message of an earlier
\* outcome is gone.
C35_NoStaleErrorMessage ==
  \A r \in RequestIds :
    requests[r].errorMessage # "" => requests[r].status \in {"awaiting_search", "failed"}

\* C36: the approval endpoint never modifies or deletes a user whose
\* registrationStatus is not pending_approval; an approved user in
\* particular is never deleted by a reject call.
C36_OnlyPendingUsersChange ==
  [][\A u \in UserIds :
       users[u] # "pending_approval" => users'[u] = users[u]
    ]_vars

\* C37: transform rewrites a path only when its clean form is the clean
\* remote prefix or continues it with a separator; any other path, one that
\* only shares the prefix as a string included, is returned as it is; a
\* rewritten path is the clean local prefix followed by the path's
\* remainder under the remote prefix.
C37_DirectoryBoundary ==
  (callPc = "returned" /\ callArgs.config.enabled /\ callArgs.path # <<>>
     /\ callArgs.config.remotePath # <<>> /\ callArgs.config.localPath # <<>>) =>
    LET path == Clean(callArgs.path)
        remote == Clean(callArgs.config.remotePath)
        local == Clean(callArgs.config.localPath)
        under == path = remote \/ IsPrefixOf(remote \o <<"/">>, path)
    IN  IF under
        THEN callResult = local \o SubSeq(path, Len(remote) + 1, Len(path))
        ELSE callResult = callArgs.path

\* C38 as stated: when cleanupUnusedThumbnails has returned without error,
\* every file in the cache directory has a stem in activeAsins, no file with
\* a stem in activeAsins was deleted, the number returned is the number of
\* files deleted, and no thumbnail cached for an ASIN of activeAsins was
\* removed.
C38_CleanupAsStated ==
  /\ [](cleanPc = "done" =>
          /\ \A file \in cacheDir : parseName(file) \in cleanActive
          /\ \A file \in cleanDeleted : parseName(file) \notin cleanActive
          /\ cleanResult = Cardinality(cleanDeleted))
  /\ [][\A c \in thumbCached :
          (c[1] \in cleanActive /\ cleanPc = "listed") => c \in thumbCached'
       ]_vars

\* C38, amended: when cleanupUnusedThumbnails has returned without error,
\* every file in the cache directory has a stem in activeAsins or was
\* written by cacheThumbnail after the call had listed the directory (a new
\* file, or one the call had already deleted), the files deleted are listed
\* files with a stem outside activeAsins, the number returned is their
\* number, and while the call runs no thumbnail cached for an ASIN of
\* activeAsins is removed.
C38_CleanupOfListedFiles ==
  /\ [](cleanPc = "done" =>
          /\ \A file \in cacheDir :
               \/ parseName(file) \in cleanActive
               \/ /\ file \notin cleanListed \/ file \in cleanDeleted
                  /\ \E asin \in Asins : <<asin, file>> \in thumbCached
          /\ \A file \in cleanDeleted :
               /\ file \in cleanListed
               /\ parseName(file) \notin cleanActive
          /\ cleanListed \ cleanDeleted \subseteq cacheDir
          /\ cleanResult = Cardinality(cleanDeleted))
  /\ [][\A c \in thumbCached :
          (c[1] \in cleanActive /\ cleanPc = "listed") =>
            /\ c \in thumbCached'
            /\ c[2] \in cacheDir'
       ]_vars

\* the cleanup kept the thumbnail "B0.1.jpg" cached for the active ASIN
\* "B0.1" and deleted ".gitkeep"
C38_Witness ==
  /\ cleanPc = "done"
  /\ cleanActive = {<<"B0", ".", "1">>}
  /\ cleanResult = 1
  /\ cleanDeleted = {<<".", "gitkeep">>}
  /\ cacheDir = {<<"B0", ".", "1", ".", "jpg">>}
  /\ <<<<"B0", ".", "1">>, <<"B0", ".", "1", ".", "jpg">>>> \in thumbCached

====
